---- MODULE Spec2Model ----
(***************************************************************************)
(* A model of the UDSL evaluator (src/unnamed/part_000): the plugin        *)
(* registry, value resolution, executeOperation and executePipeline, with  *)
(* several pipeline executions interleaving at their await points.         *)
(*                                                                         *)
(* JSON values are records of one shape, [t, n, s, kids]:                  *)
(*   t     the JavaScript type tag ("undef", "null", "bool", "num", "str", *)
(*         "arr", "obj", "date", "function")                               *)
(*   n     the number (or 0/1 for a boolean, the time of a date)           *)
(*   s     the string, as a sequence of tokens: "." is a token of its own, *)
(*         every decimal digit is a token of its own, any other run of     *)
(*         characters is one token                                         *)
(*   kids  the entries of an object in insertion order, or the elements of *)
(*         an array keyed by their decimal index                           *)
(* Of the property names every object inherits from Object.prototype, the  *)
(* model has "toString".                                                   *)
(***************************************************************************)
EXTENDS Integers, Sequences, FiniteSets, TLC

\* ---------------------------------------------------------------------------
\* Bounds
\* ---------------------------------------------------------------------------

\* registerPlugin / unregisterPlugin / clearPlugins calls in one behaviour
MaxRegCalls == 2

\* resolveValue calls a caller makes on one context in one behaviour
MaxResolves == 3

\* ---------------------------------------------------------------------------
\* Strings
\* ---------------------------------------------------------------------------

DOT == "."

DigitChars == <<"0", "1", "2", "3", "4", "5", "6", "7", "8", "9">>

RECURSIVE Decimal(_)
\* String(n) for n >= 0, as used by a template literal
Decimal(n) ==
    IF n < 10 THEN <<DigitChars[n + 1]>>
    ELSE Decimal(n \div 10) \o <<DigitChars[(n % 10) + 1]>>

\* String.prototype.includes(".")
includesDot(s) == \E i \in 1..Len(s) : s[i] = DOT

RECURSIVE SplitFrom(_, _, _, _)
SplitFrom(s, i, cur, acc) ==
    IF i > Len(s) THEN Append(acc, cur)
    ELSE IF s[i] = DOT THEN SplitFrom(s, i + 1, <<>>, Append(acc, cur))
    ELSE SplitFrom(s, i + 1, Append(cur, s[i]), acc)

\* String.prototype.split("."): every dot separates; "" gives [""]
split(s) == SplitFrom(s, 1, <<>>, <<>>)

\* String.prototype.split(".", limit): the first `limit` pieces of split(".")
splitLimit(s, limit) ==
    LET all == split(s)
    IN  IF Len(all) <= limit THEN all ELSE SubSeq(all, 1, limit)

\* ---------------------------------------------------------------------------
\* Values
\* ---------------------------------------------------------------------------

Undef == [t |-> "undef", n |-> 0, s |-> <<>>, kids |-> <<>>]
Null == [t |-> "null", n |-> 0, s |-> <<>>, kids |-> <<>>]
Bool(b) == [t |-> "bool", n |-> IF b THEN 1 ELSE 0, s |-> <<>>, kids |-> <<>>]
Num(i) == [t |-> "num", n |-> i, s |-> <<>>, kids |-> <<>>]
Str(x) == [t |-> "str", n |-> 0, s |-> x, kids |-> <<>>]
DateAt(i) == [t |-> "date", n |-> i, s |-> <<>>, kids |-> <<>>]
KV(key, val) == [k |-> key, v |-> val]
Obj(entries) == [t |-> "obj", n |-> 0, s |-> <<>>, kids |-> entries]
Arr(elems) ==
    [t |-> "arr", n |-> 0, s |-> <<>>,
     kids |-> [i \in 1..Len(elems) |-> KV(Decimal(i - 1), elems[i])]]

\* value === null || value === undefined
isNullish(v) == v.t \in {"undef", "null"}

\* typeof v === "object" && v !== null
isObjectLike(v) == v.t \in {"obj", "arr", "date"}

\* A function value, by its name
Fn(name) == [t |-> "function", n |-> 0, s |-> name, kids |-> <<>>]

\* The properties objects, arrays and dates inherit through their prototype
\* chain (of them, the model has toString)
InheritedKeys == {<<"toString">>}

\* Object.prototype.hasOwnProperty: key is an entry of v itself
hasOwn(v, key) == \E i \in 1..Len(v.kids) : v.kids[i].k = key

\* key in v, for an object-like v: own or inherited
hasKey(v, key) == hasOwn(v, key) \/ key \in InheritedKeys

\* v[key] for an object-like v: an own entry, the length of an array, or an
\* inherited property
getKey(v, key) ==
    IF hasOwn(v, key)
    THEN v.kids[CHOOSE i \in 1..Len(v.kids) : v.kids[i].k = key].v
    ELSE IF v.t = "arr" /\ key = <<"length">> THEN Num(Len(v.kids))
    ELSE IF key \in InheritedKeys THEN Fn(key)
    ELSE Undef

\* obj[key] = val on a plain object: an existing key keeps its position
setKey(o, key, val) ==
    IF hasOwn(o, key)
    THEN [o EXCEPT !.kids =
            [i \in 1..Len(o.kids) |->
                IF o.kids[i].k = key THEN KV(key, val) ELSE o.kids[i]]]
    ELSE [o EXCEPT !.kids = Append(o.kids, KV(key, val))]

\* obj[key] = val by assignment on a plain object: "__proto__" is the
\* accessor of Object.prototype, whose setter makes no entry (it changes the
\* prototype when val is an object or null, which the model does not follow:
\* no expression of the model has an object or null under "__proto__")
assign(o, key, val) ==
    IF key = <<"__proto__">> THEN o ELSE setKey(o, key, val)

\* Object.keys(o) as a set
keySet(o) == {o.kids[i].k : i \in 1..Len(o.kids)}

RECURSIVE WalkParts(_, _, _)
WalkParts(current, parts, i) ==
    IF i > Len(parts) THEN current
    ELSE IF isNullish(current) THEN Undef
    ELSE IF ~isObjectLike(current) THEN Undef
    ELSE WalkParts(getKey(current, parts[i]), parts, i + 1)

getNestedValue(obj, path) == WalkParts(obj, split(path), 1)

\* The truthiness of JavaScript itself: !!value
isTruthyHost(value) ==
    IF isNullish(value) THEN FALSE
    ELSE IF value.t = "bool" /\ value.n = 0 THEN FALSE
    ELSE IF value.t = "num" /\ value.n = 0 THEN FALSE
    ELSE IF value.t = "str" /\ value.s = <<>> THEN FALSE
    ELSE TRUE

isTruthy(value) ==
    IF isNullish(value) THEN FALSE
    ELSE IF value.t = "bool" /\ value.n = 0 THEN FALSE
    ELSE IF value.t = "num" /\ value.n = 0 THEN FALSE
    ELSE IF value.t = "str" /\ value.s = <<>> THEN FALSE
    ELSE IF value.t = "arr" /\ Len(value.kids) = 0 THEN FALSE
    ELSE TRUE

\* JavaScript truthiness, as used by `opResult.name && ...` and
\* `pipeline.$return ? ... : ...`
jsTruthy(v) ==
    IF isNullish(v) THEN FALSE
    ELSE IF v.t = "bool" /\ v.n = 0 THEN FALSE
    ELSE IF v.t = "num" /\ v.n = 0 THEN FALSE
    ELSE IF v.t = "str" /\ v.s = <<>> THEN FALSE
    ELSE TRUE

\* ---------------------------------------------------------------------------
\* Value resolution
\*
\* A context is [input, results, now, tempId, wall]: tempId is the kind of
\* generator supplied ("none" when omitted), wall is what new Date() reads.
\* The mutable state a resolution can touch is st = [ctr, gen]: the shared
\* tempIdCounter and the number of calls made to the supplied generator.
\* ---------------------------------------------------------------------------

Ret(val, st) == [v |-> val, st |-> st]

\* The generator of the evaluator's test: () => `custom_${++counter}`;
\* "nullish" is a generator that returns undefined
tempIdGen(kind, calls) ==
    IF kind = "custom" THEN Str(<<"custom_">> \o Decimal(calls)) ELSE Undef

\* `temp_${tempIdCounter++}`
counterTempPost(st) ==
    Ret(Str(<<"temp_">> \o Decimal(st.ctr)), [st EXCEPT !.ctr = @ + 1])

\* A $temp that reads the counter and leaves it where it is
counterTempHeld(st) == Ret(Str(<<"temp_">> \o Decimal(st.ctr + 1)), st)

\* `temp_${++tempIdCounter}`
counterTemp(st) ==
    Ret(Str(<<"temp_">> \o Decimal(st.ctr + 1)), [st EXCEPT !.ctr = @ + 1])

\* ctx.tempId?.() ?? ..., given what the generator returned and the state
\* its call left
generated(out, called) ==
    IF isNullish(out) THEN counterTemp(called) ELSE Ret(out, called)

\* ctx.tempId?.() ?? `temp_${++tempIdCounter}`
nextTemp(ctx, st) ==
    IF ctx.tempId = "none" THEN counterTemp(st)
    ELSE generated(tempIdGen(ctx.tempId, st.gen + 1), [st EXCEPT !.gen = @ + 1])

\* new Date(), whatever ctx.now is
nowValueWall(ctx) == DateAt(ctx.wall)

\* ctx.now ?? new Date()
nowValue(ctx) == IF isNullish(ctx.now) THEN DateAt(ctx.wall) ELSE ctx.now

Marker(tag, val) == Obj(<<KV(tag, val)>>)

\* The resolved value handed on without its marker
rewrapBare(tag, r) == Ret(r.v, r.st)

\* { $push: resolveValue(obj.$push, ctx) }, given the resolution r of the
\* carried value
rewrap(tag, r) == Ret(Marker(tag, r.v), r.st)

\* The array or plain object built from the resolved entries r
rebuilt(value, r) ==
    Ret([t |-> IF value.t = "arr" THEN "arr" ELSE "obj",
         n |-> 0, s |-> <<>>, kids |-> r.v], r.st)

RECURSIVE resolveValue(_, _, _)
RECURSIVE resolveEntries(_, _, _, _, _)

\* One turn of value.map(...) / of the Object.entries(obj) loop, given the
\* resolution r of entry i
resolvedEntry(kids, i, acc, ctx, r) ==
    resolveEntries(kids, i + 1, assign(Obj(acc), kids[i].k, r.v).kids, ctx, r.st)

\* value.map(...) / Object.entries(obj) loop: entries resolved left to right
resolveEntries(kids, i, acc, ctx, st) ==
    IF i > Len(kids) THEN Ret(acc, st)
    ELSE resolvedEntry(kids, i, acc, ctx, resolveValue(kids[i].v, ctx, st))

\* A conditional that resolves both branches, then first, and returns the
\* selected one
resolveBranchBoth(cond, c, ctx) ==
    Ret(IF isTruthy(c.v)
        THEN resolveValue(getKey(cond, <<"then">>), ctx, c.st).v
        ELSE resolveValue(getKey(cond, <<"else">>), ctx, c.st).v,
        resolveValue(getKey(cond, <<"else">>), ctx,
                     resolveValue(getKey(cond, <<"then">>), ctx, c.st).st).st)

\* The $if conditional cond = obj.$if, given the resolution c of cond.cond
resolveBranch(cond, c, ctx) ==
    IF isTruthy(c.v)
    THEN resolveValue(getKey(cond, <<"then">>), ctx, c.st)
    ELSE IF getKey(cond, <<"else">>).t # "undef"
    THEN resolveValue(getKey(cond, <<"else">>), ctx, c.st)
    ELSE Ret(Undef, c.st)

resolveIf(cond, ctx, st) ==
    resolveBranch(cond, resolveValue(getKey(cond, <<"cond">>), ctx, st), ctx)

resolveValue(value, ctx, st) ==
    IF isNullish(value) THEN Ret(value, st)
    ELSE IF isObjectLike(value) /\ hasKey(value, <<"$input">>)
    THEN Ret(getNestedValue(ctx.input, getKey(value, <<"$input">>).s), st)
    ELSE IF isObjectLike(value) /\ hasKey(value, <<"$ref">>)
    THEN Ret(getNestedValue(ctx.results, getKey(value, <<"$ref">>).s), st)
    ELSE IF isObjectLike(value) /\ hasKey(value, <<"$now">>)
    THEN Ret(nowValue(ctx), st)
    ELSE IF isObjectLike(value) /\ hasKey(value, <<"$temp">>)
    THEN nextTemp(ctx, st)
    ELSE IF isObjectLike(value)
    THEN IF hasKey(value, <<"$inc">>)
         THEN Ret(Marker(<<"$inc">>, getKey(value, <<"$inc">>)), st)
         ELSE IF hasKey(value, <<"$dec">>)
         THEN Ret(Marker(<<"$dec">>, getKey(value, <<"$dec">>)), st)
         ELSE IF hasKey(value, <<"$push">>)
         THEN rewrap(<<"$push">>, resolveValue(getKey(value, <<"$push">>), ctx, st))
         ELSE IF hasKey(value, <<"$pull">>)
         THEN rewrap(<<"$pull">>, resolveValue(getKey(value, <<"$pull">>), ctx, st))
         ELSE IF hasKey(value, <<"$addToSet">>)
         THEN rewrap(<<"$addToSet">>,
                     resolveValue(getKey(value, <<"$addToSet">>), ctx, st))
         ELSE IF hasKey(value, <<"$default">>)
         THEN Ret(getKey(value, <<"$default">>), st)
         ELSE IF hasKey(value, <<"$if">>)
         THEN resolveIf(getKey(value, <<"$if">>), ctx, st)
         ELSE rebuilt(value, resolveEntries(value.kids, 1, <<>>, ctx, st))
    ELSE Ret(value, st)

\* ---------------------------------------------------------------------------
\* Plugin registry
\*
\* `plugins` is the module-level Map, as the sequence of its entries in
\* insertion order. A plugin is [namespace, effects]; effects is the sequence
\* of [name, h] entries of its effects object, h naming the handler function.
\* ---------------------------------------------------------------------------

Effect(name, h) == [name |-> name, h |-> h]
Plugin(ns, effects) == [namespace |-> ns, effects |-> effects]

\* Map.prototype.has
mapHas(ps, ns) == \E i \in 1..Len(ps) : ps[i].namespace = ns

\* A set that merges the effects of the new plugin into those of the old
mapSetMerging(ps, plugin) ==
    IF mapHas(ps, plugin.namespace)
    THEN [i \in 1..Len(ps) |->
            IF ps[i].namespace = plugin.namespace
            THEN Plugin(plugin.namespace, ps[i].effects \o plugin.effects)
            ELSE ps[i]]
    ELSE Append(ps, plugin)

\* Map.prototype.set: an existing key keeps its position and gets the new value
mapSet(ps, plugin) ==
    IF mapHas(ps, plugin.namespace)
    THEN [i \in 1..Len(ps) |->
            IF ps[i].namespace = plugin.namespace THEN plugin ELSE ps[i]]
    ELSE Append(ps, plugin)

RECURSIVE entriesWithout(_, _, _)
entriesWithout(ps, ns, i) ==
    IF i > Len(ps) THEN <<>>
    ELSE IF ps[i].namespace = ns THEN entriesWithout(ps, ns, i + 1)
    ELSE <<ps[i]>> \o entriesWithout(ps, ns, i + 1)

\* Map.prototype.delete
mapDelete(ps, ns) == entriesWithout(ps, ns, 1)

\* Map.prototype.get, for a key the map has
mapGet(ps, ns) == ps[CHOOSE i \in 1..Len(ps) : ps[i].namespace = ns]

\* [...plugins.keys()]
pluginKeys(ps) == [i \in 1..Len(ps) |-> ps[i].namespace]

\* The effects object has an entry of its own for name
ownEffect(plugin, name) ==
    \E i \in 1..Len(plugin.effects) : plugin.effects[i].name = name

\* plugin.effects[effectName] is truthy: an own entry, or a function the
\* effects object inherits
hasEffect(plugin, name) == ownEffect(plugin, name) \/ name \in InheritedKeys

\* plugin.effects[effectName]: the handler of the own entry, or the inherited
\* function
effectHandler(plugin, name) ==
    IF ownEffect(plugin, name)
    THEN plugin.effects[CHOOSE i \in 1..Len(plugin.effects) :
                            plugin.effects[i].name = name].h
    ELSE "Object.prototype.toString"

\* ---------------------------------------------------------------------------
\* Errors and effect handlers
\* ---------------------------------------------------------------------------

NoError == [kind |-> "none", message |-> <<>>]
EvaluationError(message) == [kind |-> "EvaluationError", message |-> message]
HandlerError == [kind |-> "HandlerError", message |-> <<"boom">>]

RECURSIVE spreadInto(_, _, _)
\* { ...target, ...source }
spreadInto(target, kids, i) ==
    IF i > Len(kids) THEN target
    ELSE spreadInto(setKey(target, kids[i].k, kids[i].v), kids, i + 1)

HRet(val, err, st) == [v |-> val, err |-> err, st |-> st]

\* ctx.tempId?.() ?? "temp"
handlerTempId(ctx, st) ==
    IF ctx.tempId = "none" \/ isNullish(tempIdGen(ctx.tempId, st.gen + 1))
    THEN Str(<<"temp">>)
    ELSE tempIdGen(ctx.tempId, st.gen + 1)

\* ctx.resolve(v): resolve: (v) => resolveValue(v, createCtx()), a context
\* made anew over the input, the results object, now and tempId of ctx
resolve(ctx, v, st) == resolveValue(v, ctx, st)

\* { got: r } for the resolution r the handler obtained
peeked(r) == HRet(Obj(<<KV(<<"got">>, r.v)>>), NoError, r.st)

\* What the handler named h does when called with (args, ctx):
\*   create  (args, ctx) => ({ id: ctx.tempId?.() ?? "temp", ...args })
\*   update  (args, ctx) => args
\*   delete  (args, ctx) => ({ deleted: true })
\*   fail    a handler that throws
\*   put     (args, ctx) => { ctx.results.seen = args; return args }
\*   peek    (args, ctx) => ({ got: ctx.resolve({ $ref: args.path }) })
\*   Object.prototype.toString, called as a plain function (this undefined)
handle(h, args, ctx, st) ==
    IF h = "create"
    THEN HRet(spreadInto(Obj(<<KV(<<"id">>, handlerTempId(ctx, st))>>), args.kids, 1),
              NoError,
              IF ctx.tempId = "none" THEN st ELSE [st EXCEPT !.gen = @ + 1])
    ELSE IF h \in {"update", "put"} THEN HRet(args, NoError, st)
    ELSE IF h = "delete"
    THEN HRet(Obj(<<KV(<<"deleted">>, Bool(TRUE))>>), NoError, st)
    ELSE IF h = "peek"
    THEN peeked(resolve(ctx, Obj(<<KV(<<"$ref">>, getKey(args, <<"path">>))>>), st))
    ELSE IF h = "Object.prototype.toString"
    THEN HRet(Str(<<"[object Undefined]">>), NoError, st)
    ELSE HRet(Undef, HandlerError, st)

\* What the results object of the context, which is the results object of
\* the execution itself, holds once the handler named h has been called
written(h, args, results) ==
    IF h = "put" THEN setKey(results, <<"seen">>, args) ELSE results

\* ---------------------------------------------------------------------------
\* Operations
\*
\* An operation is [do, with, as, when], the wire fields $do, $with, $as and
\* $when; an absent optional field is Undef.
\* ---------------------------------------------------------------------------

Operation(do, with, as, when) == [do |-> do, with |-> with, as |-> as, when |-> when]

OperationResult(name, effect, args, result, skipped) ==
    [name |-> name, effect |-> effect, args |-> args, result |-> result,
     skipped |-> skipped]

\* effect.includes(".") ? effect.split(".", 2) : ["core", effect]
parseEffect(effect) ==
    IF includesDot(effect) THEN splitLimit(effect, 2) ELSE <<<<"core">>, effect>>

\* The `if (condition !== undefined)` block: whether the operation is skipped,
\* given what its condition resolved to
skipsOperation(operation, condValue) ==
    operation.when.t # "undef" /\ ~isTruthy(condValue)

\* The two lookups of the handler: the error thrown, or NoError
lookupError(ps, effect, namespace, effectName) ==
    IF ~mapHas(ps, namespace)
    THEN EvaluationError(<<"Unknown plugin namespace: ">> \o namespace)
    ELSE IF ~hasEffect(mapGet(ps, namespace), effectName)
    THEN EvaluationError(<<"Unknown effect: ">> \o effect)
    ELSE NoError

\* What executeOperation has done when it first suspends or ends:
\*   kind     "skipped"  returned early on a falsy $when
\*            "throw"    threw on the handler lookup
\*            "handler"  called the handler and awaits it
\*   op       the OperationResult it returns once the handler has fulfilled
\*   err      the error it rejects with (a lookup error, or the handler's)
\*   ns, fx   the namespace and effect name it looked up
\*   h        the handler it called
\*   evs      what it evaluated, in order ("reject": the handler threw)
Outcome(kind, op, err, ns, fx, h, evs, st) ==
    [kind |-> kind, op |-> op, err |-> err, ns |-> ns, fx |-> fx, h |-> h,
     evs |-> evs, st |-> st]

\* const { $with: args = {} } = operation
argsOf(operation) ==
    IF operation.with.t = "undef" THEN Obj(<<>>) ELSE operation.with

\* What was evaluated before the arguments
condEvents(operation) ==
    IF operation.when.t # "undef" THEN <<"when">> ELSE <<>>

\* `const result = await handler(resolvedArgs, ctx)` and the return, given
\* what the handler h did (result)
invoked(operation, parts, resolvedArgs, h, result) ==
    Outcome("handler",
            OperationResult(operation.as, operation.do, resolvedArgs.v, result.v, FALSE),
            result.err, parts[1], parts[2], h,
            condEvents(operation) \o <<"with", "lookup", "invoke">>
                \o (IF result.err.kind # "none" THEN <<"reject">> ELSE <<>>),
            result.st)

\* The handler lookup and call, given the resolved arguments, the parsed
\* effect (parts) and the error of the lookup (err)
dispatched(operation, ctx, ps, resolvedArgs, parts, err) ==
    IF err.kind # "none"
    THEN Outcome("throw",
                 OperationResult(operation.as, operation.do, resolvedArgs.v, Undef, FALSE),
                 err, parts[1], parts[2], "",
                 condEvents(operation) \o <<"with", "lookup", "throw">>,
                 resolvedArgs.st)
    ELSE invoked(operation, parts, resolvedArgs,
                 effectHandler(mapGet(ps, parts[1]), parts[2]),
                 handle(effectHandler(mapGet(ps, parts[1]), parts[2]),
                        resolvedArgs.v, ctx, resolvedArgs.st))

\* An executeOperation that resolves the resolved arguments once more: what
\* was fetched is taken for an expression
dispatchTwice(operation, ctx, ps, resolvedArgs, parts) ==
    dispatched(operation, ctx, ps, resolveValue(resolvedArgs.v, ctx, resolvedArgs.st),
               parts, lookupError(ps, operation.do, parts[1], parts[2]))

\* executeOperation from `// Resolve arguments` on, given the resolved
\* arguments and the parsed effect (namespace, effectName)
dispatch(operation, ctx, ps, resolvedArgs, parts) ==
    dispatched(operation, ctx, ps, resolvedArgs, parts,
               lookupError(ps, operation.do, parts[1], parts[2]))

\* An executeOperation that resolves the arguments before it looks at the
\* condition
conditionedArgsFirst(operation, ctx, ps, condResult) ==
    IF skipsOperation(operation, condResult.v)
    THEN Outcome("skipped",
                 OperationResult(operation.as, operation.do, Obj(<<>>), Undef, TRUE),
                 NoError, <<>>, <<>>, "", condEvents(operation),
                 resolveValue(argsOf(operation), ctx, condResult.st).st)
    ELSE dispatch(operation, ctx, ps,
                  resolveValue(argsOf(operation), ctx, condResult.st),
                  parseEffect(operation.do))

\* An executeOperation that looks the handler up before it resolves the
\* arguments
conditionedLookupFirst(operation, ctx, ps, condResult) ==
    IF skipsOperation(operation, condResult.v)
    THEN Outcome("skipped",
                 OperationResult(operation.as, operation.do, Obj(<<>>), Undef, TRUE),
                 NoError, <<>>, <<>>, "", condEvents(operation), condResult.st)
    ELSE IF lookupError(ps, operation.do, parseEffect(operation.do)[1],
                        parseEffect(operation.do)[2]).kind # "none"
    THEN Outcome("throw",
                 OperationResult(operation.as, operation.do, Obj(<<>>), Undef, FALSE),
                 lookupError(ps, operation.do, parseEffect(operation.do)[1],
                             parseEffect(operation.do)[2]),
                 parseEffect(operation.do)[1], parseEffect(operation.do)[2], "",
                 condEvents(operation) \o <<"lookup", "throw">>, condResult.st)
    ELSE dispatch(operation, ctx, ps,
                  resolveValue(argsOf(operation), ctx, condResult.st),
                  parseEffect(operation.do))

\* executeOperation from `// Check condition` on, given the resolution of
\* the condition (of undefined when there is none)
conditioned(operation, ctx, ps, condResult) ==
    IF skipsOperation(operation, condResult.v)
    THEN Outcome("skipped",
                 OperationResult(operation.as, operation.do, Obj(<<>>), Undef, TRUE),
                 NoError, <<>>, <<>>, "", condEvents(operation), condResult.st)
    ELSE dispatch(operation, ctx, ps,
                  resolveValue(argsOf(operation), ctx, condResult.st),
                  parseEffect(operation.do))

executeOperation(operation, ctx, st, ps) ==
    conditioned(operation, ctx, ps, resolveValue(operation.when, ctx, st))

\* ---------------------------------------------------------------------------
\* The plugins, pipelines, inputs and options the executions draw from
\* ---------------------------------------------------------------------------

Pipeline(pipe, return) == [pipe |-> pipe, return |-> return]

RefInput(path) == Obj(<<KV(<<"$input">>, Str(path))>>)
RefResult(path) == Obj(<<KV(<<"$ref">>, Str(path))>>)
RefNow == Obj(<<KV(<<"$now">>, Bool(TRUE))>>)
RefTemp == Obj(<<KV(<<"$temp">>, Bool(TRUE))>>)

entityPlugin ==
    Plugin(<<"entity">>,
           <<Effect(<<"create">>, "create"), Effect(<<"update">>, "update"),
             Effect(<<"delete">>, "delete"), Effect(<<"fail">>, "fail"),
             Effect(<<"put">>, "put"), Effect(<<"peek">>, "peek")>>)

\* A second plugin for the namespace "entity", with another handler set
entityPluginV2 == Plugin(<<"entity">>, <<Effect(<<"create">>, "delete")>>)

corePlugin == Plugin(<<"core">>, <<Effect(<<"noop">>, "update")>>)

\* A plugin whose effects object has the keys "b" and "b.c"
aPlugin ==
    Plugin(<<"a">>,
           <<Effect(<<"b">>, "update"), Effect(<<"b", DOT, "c">>, "delete")>>)

Plugins == {entityPlugin, entityPluginV2, corePlugin, aPlugin}

Namespaces == {pl.namespace : pl \in Plugins}

\* The pipeline of the test "executes pipeline with $ref dependencies"
sessionPipeline ==
    Pipeline(<<
        Operation(<<"entity", DOT, "create">>,
                  Obj(<<KV(<<"type">>, Str(<<"Session">>)),
                        KV(<<"id">>, RefTemp),
                        KV(<<"title">>, RefInput(<<"title">>))>>),
                  Str(<<"session">>), Undef),
        Operation(<<"entity", DOT, "create">>,
                  Obj(<<KV(<<"type">>, Str(<<"Message">>)),
                        KV(<<"sessionId">>, RefResult(<<"session", DOT, "id">>))>>),
                  Str(<<"message">>), Undef)>>,
        Undef)

\* A conditional step between two steps; the conditional step re-uses the
\* name of the first and names a namespace no plugin has
guardedPipeline ==
    Pipeline(<<
        Operation(<<"entity", DOT, "delete">>,
                  Obj(<<KV(<<"deleted">>, Str(<<"no">>))>>),
                  Str(<<"d">>), Undef),
        Operation(<<"nope", DOT, "run">>,
                  Obj(<<KV(<<"id">>, RefTemp)>>),
                  Str(<<"d">>), RefInput(<<"flag">>)),
        Operation(<<"entity", DOT, "update">>,
                  Obj(<<KV(<<"seen">>, RefResult(<<"d", DOT, "deleted">>)),
                        KV(<<"late">>, RefResult(<<"u", DOT, "seen">>))>>),
                  Str(<<"u">>), Undef)>>,
        Undef)

\* A step naming an effect its namespace lacks, between two steps that run
bogusPipeline ==
    Pipeline(<<
        Operation(<<"entity", DOT, "update">>,
                  Obj(<<KV(<<"n">>, Num(1))>>), Str(<<"x">>), Undef),
        Operation(<<"entity", DOT, "bogus">>,
                  Obj(<<KV(<<"id">>, RefTemp)>>), Str(<<"y">>), Undef),
        Operation(<<"entity", DOT, "update">>,
                  Obj(<<KV(<<"id">>, RefTemp)>>), Str(<<"z">>), Undef)>>,
        Undef)

\* A step whose handler throws, followed by a step that would run
failingPipeline ==
    Pipeline(<<
        Operation(<<"entity", DOT, "fail">>, Undef, Str(<<"f">>), Undef),
        Operation(<<"entity", DOT, "update">>,
                  Obj(<<KV(<<"id">>, RefTemp)>>), Str(<<"g">>), Undef)>>,
        Undef)

\* An effect string with two dots, and one with none
dottedPipeline ==
    Pipeline(<<
        Operation(<<"a", DOT, "b", DOT, "c">>,
                  Obj(<<KV(<<"deleted">>, Str(<<"no">>))>>), Str(<<"r">>), Undef),
        Operation(<<"noop">>, Obj(<<KV(<<"k">>, RefResult(<<"r">>))>>),
                  Undef, Undef)>>,
        Undef)

\* A pipeline with a $return, a skipped named step and an unnamed step
returningPipeline ==
    Pipeline(<<
        Operation(<<"entity", DOT, "create">>,
                  Obj(<<KV(<<"title">>, RefInput(<<"title">>))>>),
                  Str(<<"s">>), Undef),
        Operation(<<"entity", DOT, "delete">>, Undef, Str(<<"t">>),
                  RefInput(<<"flag">>)),
        Operation(<<"entity", DOT, "update">>,
                  Obj(<<KV(<<"at">>, RefNow)>>), Undef, Undef)>>,
        Obj(<<KV(<<"sid">>, RefResult(<<"s", DOT, "id">>)),
              KV(<<"gone">>, RefResult(<<"t", DOT, "deleted">>)),
              KV(<<"tag">>, RefTemp)>>))

\* A step whose effect name no plugin has and every object inherits, with a
\* $ref to the step after it, whose name every object inherits too
inheritedPipeline ==
    Pipeline(<<
        Operation(<<"entity", DOT, "toString">>,
                  Obj(<<KV(<<"r">>, RefResult(<<"toString">>))>>),
                  Str(<<"p">>), Undef),
        Operation(<<"entity", DOT, "update">>,
                  Obj(<<KV(<<"v">>, Str(<<"late">>))>>),
                  Str(<<"toString">>), Undef)>>,
        Undef)

\* A step whose $when is a $ref to the step before it, itself conditional
refGuardedPipeline ==
    Pipeline(<<
        Operation(<<"entity", DOT, "update">>,
                  Obj(<<KV(<<"ok">>, Bool(TRUE))>>),
                  Str(<<"a">>), RefInput(<<"flag">>)),
        Operation(<<"entity", DOT, "delete">>, Undef, Str(<<"b">>),
                  RefResult(<<"a", DOT, "ok">>)),
        Operation(<<"entity", DOT, "update">>,
                  Obj(<<KV(<<"got">>, RefResult(<<"b", DOT, "deleted">>))>>),
                  Undef, Undef)>>,
        Undef)

\* A step whose handler writes to the results of its context, and a step
\* with a $ref to what it wrote
writingPipeline ==
    Pipeline(<<
        Operation(<<"entity", DOT, "put">>,
                  Obj(<<KV(<<"n">>, Num(1))>>), Undef, Undef),
        Operation(<<"entity", DOT, "update">>,
                  Obj(<<KV(<<"got">>, RefResult(<<"seen", DOT, "n">>))>>),
                  Str(<<"u">>), Undef)>>,
        Undef)

\* { $if: { cond, then, else } } and { $if: { cond, then } }
If(cond, then, else) ==
    Marker(<<"$if">>, Obj(<<KV(<<"cond">>, cond), KV(<<"then">>, then),
                            KV(<<"else">>, else)>>))
IfThen(cond, then) ==
    Marker(<<"$if">>, Obj(<<KV(<<"cond">>, cond), KV(<<"then">>, then)>>))

\* The conditions of the test "handles truthy/falsy DSL semantics": the
\* expression e of each and the value v it resolves to
Conditions ==
    <<[e |-> Null, v |-> Null],
      [e |-> RefInput(<<"missing">>), v |-> Undef],
      [e |-> Bool(FALSE), v |-> Bool(FALSE)],
      [e |-> Num(0), v |-> Num(0)],
      [e |-> Str(<<>>), v |-> Str(<<>>)],
      [e |-> Arr(<<>>), v |-> Arr(<<>>)],
      [e |-> Bool(TRUE), v |-> Bool(TRUE)],
      [e |-> Num(1), v |-> Num(1)],
      [e |-> Str(<<"hello">>), v |-> Str(<<"hello">>)],
      [e |-> Arr(<<Num(1)>>), v |-> Arr(<<Num(1)>>)],
      [e |-> Obj(<<>>), v |-> Obj(<<>>)]>>

\* const ifOp = (cond) => ({ $if: { cond, then: "yes", else: "no" } })
ifOp(cond) == If(cond, Str(<<"yes">>), Str(<<"no">>))

\* A step with ifOp of every condition in its $with, under the decimal
\* number of the condition, then a step with each condition as its $when
truthinessPipeline ==
    Pipeline(<<Operation(<<"entity", DOT, "update">>,
                         Obj([k \in 1..Len(Conditions) |->
                                 KV(Decimal(k), ifOp(Conditions[k].e))]),
                         Undef, Undef)>>
             \o [k \in 1..Len(Conditions) |->
                    Operation(<<"entity", DOT, "delete">>, Undef, Undef,
                              Conditions[k].e)],
             Undef)

\* A step with references under every operator tag and at several depths
operatorsPipeline ==
    Pipeline(<<
        Operation(<<"entity", DOT, "update">>,
                  Obj(<<KV(<<"count">>, Marker(<<"$inc">>, Num(1))),
                        KV(<<"tags">>, Marker(<<"$push">>, RefInput(<<"title">>))),
                        KV(<<"gone">>, Marker(<<"$pull">>, Arr(<<RefTemp, RefNow>>))),
                        KV(<<"set">>, Marker(<<"$addToSet">>,
                                             Obj(<<KV(<<"t">>, RefInput(<<"title">>))>>))),
                        KV(<<"pick">>, If(RefInput(<<"flag">>),
                                          Arr(<<RefInput(<<"title">>)>>), RefTemp)),
                        KV(<<"deep">>, Obj(<<KV(<<"list">>,
                                                Arr(<<RefTemp,
                                                      Obj(<<KV(<<"f">>, RefInput(<<"flag">>))>>)>>))>>)),
                        KV(<<"name">>, Marker(<<"$default">>, RefInput(<<"title">>)))>>),
                  Str(<<"o">>), Undef),
        Operation(<<"entity", DOT, "update">>,
                  Obj(<<KV(<<"prev">>, RefResult(<<"o", DOT, "tags">>))>>),
                  Undef, Undef)>>,
        Undef)

\* ---------------------------------------------------------------------------
\* Builders (src/unnamed/part_001): push(...items), pull(...items) and
\* addToSet(...items), by the { $tag: value } their toJSON returns, which is
\* also what the built value itself holds under $tag. items is the argument
\* list, of values in wire form.
\* ---------------------------------------------------------------------------

\* A push that carries its items as an array, however many there are
pushAlwaysList(items) == Marker(<<"$push">>, Arr(items))

push(items) ==
    Marker(<<"$push">>, IF Len(items) = 1 THEN items[1] ELSE Arr(items))

pull(items) ==
    Marker(<<"$pull">>, IF Len(items) = 1 THEN items[1] ELSE Arr(items))

addToSet(items) ==
    Marker(<<"$addToSet">>, IF Len(items) = 1 THEN items[1] ELSE Arr(items))

\* The three builders, by the tag of their marker
BuilderTags == <<<<"$push">>, <<"$pull">>, <<"$addToSet">>>>

\* Builder b called with the argument list items
built(b, items) ==
    IF b = 1 THEN push(items) ELSE IF b = 2 THEN pull(items) ELSE addToSet(items)

\* The argument lists the builders are called with: those of the builder
\* tests, none, one item that is an array, one that is undefined, and
\* references alone and among others
ItemLists ==
    <<<<Str(<<"featured">>)>>,
      <<Str(<<"a">>), Str(<<"b">>), Str(<<"c">>)>>,
      <<>>,
      <<Arr(<<Str(<<"a">>), Str(<<"b">>)>>)>>,
      <<Undef>>,
      <<RefInput(<<"title">>)>>,
      <<RefInput(<<"flag">>), Str(<<"x">>)>>,
      <<RefResult(<<"first", DOT, "n">>), RefInput(<<"title">>), Num(0)>>>>

\* The key of the argument built by builder b from ItemLists[k]
builtKey(b, k) == <<"item_">> \o Decimal(b) \o <<"_">> \o Decimal(k)

\* After a step named "first", one step for each builder b:
\* entity.update("Post", { item_b_k: push / pull / addToSet(...ItemLists[k]) })
builtPipeline ==
    Pipeline(<<Operation(<<"entity", DOT, "update">>, Obj(<<KV(<<"n">>, Num(7))>>),
                         Str(<<"first">>), Undef)>>
             \o [b \in 1..3 |->
                    Operation(<<"entity", DOT, "update">>,
                              Obj(<<KV(<<"type">>, Str(<<"Post">>))>>
                                  \o [k \in 1..Len(ItemLists) |->
                                         KV(builtKey(b, k), built(b, ItemLists[k]))]),
                              Undef, Undef)],
             Undef)

\* Two steps named "x", with a $ref to "x" in a step between them, in the
\* $when and the $with of the second, in a step after it and in the $return
overwritingPipeline ==
    Pipeline(<<
        Operation(<<"entity", DOT, "create">>,
                  Obj(<<KV(<<"v">>, Str(<<"one">>))>>), Str(<<"x">>), Undef),
        Operation(<<"entity", DOT, "update">>,
                  Obj(<<KV(<<"mid">>, RefResult(<<"x", DOT, "v">>))>>),
                  Str(<<"m">>), Undef),
        Operation(<<"entity", DOT, "delete">>,
                  Obj(<<KV(<<"own">>, RefResult(<<"x", DOT, "v">>))>>),
                  Str(<<"x">>), RefResult(<<"x", DOT, "v">>)),
        Operation(<<"entity", DOT, "update">>,
                  Obj(<<KV(<<"late">>, RefResult(<<"x", DOT, "v">>)),
                        KV(<<"flag">>, RefResult(<<"x", DOT, "deleted">>))>>),
                  Undef, Undef)>>,
        Obj(<<KV(<<"fin">>, RefResult(<<"x">>)),
              KV(<<"old">>, RefResult(<<"x", DOT, "v">>))>>))

\* entity.peek(path): a step whose handler resolves { $ref: path } through
\* the resolve callback of its context
Peek(path, with, as, when) ==
    Operation(<<"entity", DOT, "peek">>,
              Obj(<<KV(<<"path">>, Str(path))>> \o with), as, when)

\* Steps whose handlers resolve a $ref: to an earlier step that may have
\* been skipped, to their own name (in the handler, the $with and the
\* $when), to a name an earlier step stored, and to their own name when
\* that is a name every object inherits
peekPipeline ==
    Pipeline(<<
        Operation(<<"entity", DOT, "update">>, Obj(<<KV(<<"n">>, Num(1))>>),
                  Str(<<"a">>), RefInput(<<"flag">>)),
        Peek(<<"a", DOT, "n">>, <<>>, Str(<<"b">>), Undef),
        Peek(<<"c">>, <<KV(<<"own">>, RefResult(<<"c">>))>>, Str(<<"c">>), Undef),
        Peek(<<"d">>, <<>>, Str(<<"d">>), RefResult(<<"d">>)),
        Peek(<<"c">>, <<>>, Str(<<"e">>), Undef),
        Peek(<<"a", DOT, "n">>, <<KV(<<"own">>, RefResult(<<"a", DOT, "n">>))>>,
             Str(<<"a">>), Undef),
        Peek(<<"toString">>, <<KV(<<"own">>, RefResult(<<"toString">>))>>,
             Str(<<"toString">>), Undef)>>,
        Undef)

\* A single operation with a $when, a $as and a $temp, and one whose
\* namespace no plugin has
singleCreate ==
    Operation(<<"entity", DOT, "create">>,
              Obj(<<KV(<<"id">>, RefTemp), KV(<<"title">>, RefInput(<<"title">>)),
                    KV(<<"self">>, RefResult(<<"me", DOT, "id">>))>>),
              Str(<<"me">>), RefInput(<<"flag">>))
singleUnknown ==
    Operation(<<"nope", DOT, "run">>, Obj(<<KV(<<"id">>, RefTemp)>>), Undef, Undef)

\* What is neither an operation nor a pipeline
notDsl == Obj(<<KV(<<"$with">>, Obj(<<>>))>>)

\* Steps that fetch data with the shape of expressions: from the input, and
\* from the output of a handler that returned such data
dataPipeline ==
    Pipeline(<<
        Operation(<<"entity", DOT, "update">>,
                  Obj(<<KV(<<"v">>, Str(<<"one">>))>>), Str(<<"a">>), Undef),
        Operation(<<"entity", DOT, "update">>,
                  Obj(<<KV(<<"data">>, RefInput(<<"raw">>)),
                        KV(<<"one">>, RefInput(<<"raw", DOT, "id">>))>>),
                  Str(<<"b">>), RefInput(<<"raw", DOT, "id">>)),
        Operation(<<"entity", DOT, "update">>,
                  Obj(<<KV(<<"again">>, RefResult(<<"b", DOT, "data">>)),
                        KV(<<"inner">>, RefResult(<<"b", DOT, "data", DOT, "r">>)),
                        KV(<<"t">>, RefTemp)>>),
                  Str(<<"c">>), RefResult(<<"b", DOT, "one">>))>>,
        Obj(<<KV(<<"out">>, RefResult(<<"c", DOT, "again">>)),
              KV(<<"direct">>, RefInput(<<"raw", DOT, "i">>))>>))

\* The pipeline of the test "executes complex pipeline": two steps with a
\* $temp each, the second with a $ref to the id of the first
complexPipeline ==
    Pipeline(<<
        Operation(<<"entity", DOT, "create">>,
                  Obj(<<KV(<<"type">>, Str(<<"Session">>)),
                        KV(<<"id">>, RefTemp),
                        KV(<<"title">>, RefInput(<<"title">>)),
                        KV(<<"createdAt">>, RefNow)>>),
                  Str(<<"session">>), Undef),
        Operation(<<"entity", DOT, "create">>,
                  Obj(<<KV(<<"type">>, Str(<<"Message">>)),
                        KV(<<"id">>, RefTemp),
                        KV(<<"sessionId">>, RefResult(<<"session", DOT, "id">>)),
                        KV(<<"role">>, Str(<<"user">>)),
                        KV(<<"content">>, RefInput(<<"content">>))>>),
                  Str(<<"message">>), Undef)>>,
        Undef)

\* The values execute is called with: pipelines, single operations, each
\* followed by the pipeline of that one step, and what is neither
Dsls ==
    <<sessionPipeline, guardedPipeline, bogusPipeline, failingPipeline,
      dottedPipeline, returningPipeline, inheritedPipeline, refGuardedPipeline,
      writingPipeline, truthinessPipeline, operatorsPipeline,
      singleCreate, Pipeline(<<singleCreate>>, Undef),
      singleUnknown, Pipeline(<<singleUnknown>>, Undef),
      notDsl, builtPipeline, overwritingPipeline, peekPipeline,
      complexPipeline, dataPipeline>>

\* typeof v === "object" && v !== null && "$pipe" in v && Array.isArray(v.$pipe)
isPipeline(v) == "pipe" \in DOMAIN v

\* typeof v === "object" && v !== null && "$do" in v
isOperation(v) == "do" \in DOMAIN v

isDSL(v) == isOperation(v) \/ isPipeline(v)

\* An execute that hands executePipeline the operation without its $as
executeUnnamed(dsl) ==
    IF isPipeline(dsl) THEN dsl
    ELSE IF isOperation(dsl) THEN Pipeline(<<[dsl EXCEPT !.as = Undef]>>, Undef)
    ELSE Pipeline(<<>>, Undef)

\* execute: the pipeline it hands to executePipeline (for what is neither an
\* operation nor a pipeline it throws, and hands over none)
execute(dsl) ==
    IF isPipeline(dsl) THEN dsl
    ELSE IF isOperation(dsl) THEN Pipeline(<<dsl>>, Undef)
    ELSE Pipeline(<<>>, Undef)

\* The pipeline executePipeline runs for each of Dsls
Pipelines == [d \in 1..Len(Dsls) |-> execute(Dsls[d])]

\* The pipelines whose handlers only read the results of their context
ReadingPids == (1..8) \cup {10, 11, 17, 18, 19, 21}

\* The pipelines with a handler that writes to the results of its context
WritingPids == {9}

\* The single operations, the pipelines of their one step, and what is
\* neither an operation nor a pipeline
ExecutePids == 12..16

\* Data that has the shape of expressions: a field of the input that holds
\* { $temp: true }, a { $ref } and a { $input }
rawData ==
    Obj(<<KV(<<"id">>, RefTemp), KV(<<"r">>, RefResult(<<"a", DOT, "v">>)),
          KV(<<"i">>, RefInput(<<"title">>))>>)

Inputs ==
    <<Obj(<<KV(<<"title">>, Str(<<"Chat">>)), KV(<<"flag">>, Bool(TRUE)),
            KV(<<"raw">>, rawData)>>),
      Obj(<<KV(<<"title">>, Str(<<"Chat">>)), KV(<<"flag">>, Bool(FALSE)),
            KV(<<"raw">>, rawData)>>)>>

\* The contexts a caller of resolveValue makes: the contexts of the
\* evaluator's tests, one with a generator that returns undefined
Contexts ==
    <<[input |-> Obj(<<KV(<<"name">>, Str(<<"John">>)),
                       KV(<<"nested">>, Obj(<<KV(<<"value">>, Num(42))>>)),
                       KV(<<"items">>, Arr(<<Str(<<"a">>)>>)),
                       KV(<<"nil">>, Null),
                       KV(<<"isAdmin">>, Bool(TRUE))>>),
       results |-> Obj(<<KV(<<"session">>,
                            Obj(<<KV(<<"id">>, Str(<<"sess_", "1", "2", "3">>)),
                                  KV(<<"title">>, Str(<<"Test">>))>>))>>),
       now |-> Undef, tempId |-> "none"],
      [input |-> Obj(<<KV(<<"isAdmin">>, Bool(FALSE))>>),
       results |-> Obj(<<>>),
       now |-> DateAt(0), tempId |-> "custom"],
      [input |-> Obj(<<KV(<<"isAdmin">>, Bool(FALSE))>>),
       results |-> Obj(<<>>),
       now |-> Undef, tempId |-> "nullish"]>>

\* Expressions with a $temp or a $now
TempExprs == <<RefTemp, Arr(<<RefTemp, RefTemp>>), RefNow>>

\* $if expressions with a $temp in a branch
IfExprs ==
    <<If(RefInput(<<"isAdmin">>), RefTemp, Str(<<"user">>)),
      IfThen(RefInput(<<"isAdmin">>), Obj(<<KV(<<"id">>, RefTemp)>>)),
      If(RefInput(<<"missing">>), Str(<<"admin">>), Arr(<<RefTemp, RefTemp>>)),
      If(RefInput(<<"isAdmin">>), Str(<<"admin">>), Null)>>

\* Operator markers, as in the test "preserves operators", and with
\* references under them
MarkerExprs ==
    <<Marker(<<"$inc">>, Num(1)), Marker(<<"$dec">>, Num(5)),
      Marker(<<"$push">>, Str(<<"item">>)),
      Marker(<<"$pull">>, RefInput(<<"name">>)),
      Marker(<<"$addToSet">>, Arr(<<RefResult(<<"session", DOT, "id">>), RefTemp>>)),
      Marker(<<"$push">>, Marker(<<"$inc">>, Num(1))),
      Marker(<<"$default">>, RefInput(<<"name">>))>>

\* Expressions of literals, plain objects and arrays
LiteralExprs ==
    <<Str(<<"hello">>), Str(<<>>), Num(0), Num(42), Bool(FALSE), Null,
      Obj(<<>>), Arr(<<>>),
      Obj(<<KV(<<"b">>, Num(1)),
            KV(<<"a">>, Arr(<<Str(<<"x">>), Null, Obj(<<KV(<<"k">>, Bool(TRUE))>>)>>)),
            KV(<<"toString">>, Str(<<"own">>))>>),
      Arr(<<Num(3), Arr(<<Num(2), Num(1)>>)>>),
      Obj(<<KV(<<"type">>, Str(<<"User">>)), KV(<<"__proto__">>, Num(1))>>)>>

\* $input and $ref paths: found, absent, and through what is not an object
PathExprs ==
    <<RefInput(<<"name">>), RefInput(<<"nested", DOT, "value">>),
      RefInput(<<"nested">>), RefInput(<<"missing">>),
      RefInput(<<"missing", DOT, "deep">>), RefInput(<<"name", DOT, "length">>),
      RefInput(<<"nested", DOT, "value", DOT, "x">>), RefInput(<<"nil", DOT, "x">>),
      RefInput(<<"nil">>), RefInput(<<"items", DOT, "0">>),
      RefInput(<<"items", DOT, "1">>), RefInput(<<"nested", DOT, "toString">>),
      RefInput(<<"nested", DOT, DOT, "value">>),
      RefResult(<<"session", DOT, "id">>), RefResult(<<"session", DOT, "missing">>),
      RefResult(<<"session">>), RefResult(<<"name">>),
      RefResult(<<"session", DOT, "id", DOT, "x">>)>>

Expressions == TempExprs \o IfExprs \o MarkerExprs \o LiteralExprs \o PathExprs

\* Options: { now?, tempId? }
Options ==
    <<[now |-> Undef, tempId |-> "none"],
      [now |-> DateAt(0), tempId |-> "custom"]>>

\* What new Date() can read
WallTimes == {1, 2}

\* The executePipeline calls of a behaviour, numbered in call order
RunIds == {1, 2}

\* ---------------------------------------------------------------------------
\* State
\* ---------------------------------------------------------------------------

VARIABLES
    plugins,        \* the registry Map
    tempIdCounter,  \* the module-level counter
    regCalls,       \* registry calls made so far
    lastReg,        \* per namespace, the plugin of its last register call not
                    \* yet followed by an unregister or a clear (history)
    run,            \* per execution, the frame of executePipeline
    caller,         \* a caller of resolveValue on a context of its own
    objects         \* the DSL objects and the input objects handed to execute
                    \* so far, as the callers hold them now

vars == <<plugins, tempIdCounter, regCalls, lastReg, run, caller, objects>>

NoPlugin == Plugin(<<>>, <<>>)

NoResult == OperationResult(Undef, <<>>, Undef, Undef, FALSE)

NoPending ==
    [kind |-> "none", op |-> NoResult, err |-> NoError, ns |-> <<>>,
     fx |-> <<>>, h |-> ""]

NotReturned ==
    [kind |-> "none", operations |-> <<>>, result |-> Undef, err |-> NoError]

\* PipelineResult: { operations, result }
PipelineResult(operations, result) ==
    [kind |-> "result", operations |-> operations, result |-> result,
     err |-> NoError]

Rejection(err) ==
    [kind |-> "error", operations |-> <<>>, result |-> Undef, err |-> err]

\* The frame of one executePipeline call:
\*   status            "idle" (not called), "awaiting" (suspended at the await
\*                     of executeOperation), "resolved", "rejected"
\*   pid, iid, oid     the pipeline, input and options it was called with
\*   idx               the step of the for loop
\*   results           the results object
\*   operationResults  the operationResults array
\*   pending           what the awaited executeOperation call has done (kept
\*                     once it has rejected)
\*   gen               calls made to the generator of its options
\*   returned          what the caller gets
\*   log               what it evaluated, in order (history)
IdleRun ==
    [status |-> "idle", pid |-> 0, iid |-> 0, oid |-> 0, idx |-> 0,
     results |-> Obj(<<>>), operationResults |-> <<>>, pending |-> NoPending,
     gen |-> 0, returned |-> NotReturned, log |-> <<>>]

\* The caller of resolveValue:
\*   cid    the context it made (0: none)
\*   gen    calls made to the generator of that context
\*   calls  resolveValue calls made
\*   vid    the expression of its last call, wall what new Date() read during
\*          it, out what the call returned
NoCaller == [cid |-> 0, gen |-> 0, calls |-> 0, vid |-> 0, wall |-> 0, out |-> Undef]

Init ==
    /\ plugins = <<>>
    /\ tempIdCounter = 0
    /\ regCalls = 0
    /\ lastReg = [ns \in Namespaces |-> NoPlugin]
    /\ run = [r \in RunIds |-> IdleRun]
    /\ caller = NoCaller
    /\ objects = [dsls |-> <<>>, inputs |-> <<>>]

\* ---------------------------------------------------------------------------
\* Registry operations
\* ---------------------------------------------------------------------------

registerPlugin(plugin) ==
    /\ regCalls < MaxRegCalls
    /\ plugins' = mapSet(plugins, plugin)
    /\ lastReg' = [lastReg EXCEPT ![plugin.namespace] = plugin]
    /\ regCalls' = regCalls + 1
    /\ UNCHANGED <<tempIdCounter, run, caller, objects>>

unregisterPlugin(namespace) ==
    /\ regCalls < MaxRegCalls
    /\ plugins' = mapDelete(plugins, namespace)
    /\ lastReg' = [lastReg EXCEPT ![namespace] = NoPlugin]
    /\ regCalls' = regCalls + 1
    /\ UNCHANGED <<tempIdCounter, run, caller, objects>>

clearPlugins ==
    /\ regCalls < MaxRegCalls
    /\ plugins' = <<>>
    /\ lastReg' = [ns \in Namespaces |-> NoPlugin]
    /\ regCalls' = regCalls + 1
    /\ UNCHANGED <<tempIdCounter, run, caller, objects>>

getPluginNamespaces == pluginKeys(plugins)

\* ---------------------------------------------------------------------------
\* Pipeline execution
\* ---------------------------------------------------------------------------

\* The object with index id as the callers hold it: one of those handed to
\* execute before (have), or one handed over for the first time (given)
held(have, id, given) == IF id \in DOMAIN have THEN have[id] ELSE given[id]

\* A context over one results object that all executions share
createCtxShared(f, wall) ==
    [input |-> held(objects.inputs, f.iid, Inputs), results |-> run[1].results,
     now |-> Options[f.oid].now, tempId |-> Options[f.oid].tempId,
     wall |-> wall]

createCtx(f, wall) ==
    [input |-> held(objects.inputs, f.iid, Inputs), results |-> f.results,
     now |-> Options[f.oid].now, tempId |-> Options[f.oid].tempId,
     wall |-> wall]

Events(evs, step) == [i \in 1..Len(evs) |-> [ev |-> evs[i], step |-> step]]

\* A loop that passes over a step
nextStepSkipping(i) == i + 2

\* The step the for loop takes up after step i
nextStep(i) == i + 1

\* A store that does not look at opResult.skipped
storeResultSkippedToo(results, opResult) ==
    IF jsTruthy(opResult.name)
    THEN setKey(results, opResult.name.s, opResult.result)
    ELSE results

\* A store of the resolved arguments in place of the handler's output
storeResultArgs(results, opResult) ==
    IF jsTruthy(opResult.name) /\ ~opResult.skipped
    THEN setKey(results, opResult.name.s, opResult.args)
    ELSE results

\* A store that deletes the name of a skipped step from the results
storeResultClearing(results, opResult) ==
    IF jsTruthy(opResult.name) /\ opResult.skipped
    THEN [results EXCEPT
             !.kids = SelectSeq(results.kids, LAMBDA e : e.k # opResult.name.s)]
    ELSE IF jsTruthy(opResult.name)
    THEN assign(results, opResult.name.s, opResult.result)
    ELSE results

\* A store that keeps what is already stored under the name
storeResultOnce(results, opResult) ==
    IF jsTruthy(opResult.name) /\ ~opResult.skipped /\ ~hasOwn(results, opResult.name.s)
    THEN assign(results, opResult.name.s, opResult.result)
    ELSE results

\* The results object after the `if (opResult.name && !opResult.skipped)` of
\* the loop body
storeResult(results, opResult) ==
    IF jsTruthy(opResult.name) /\ ~opResult.skipped
    THEN assign(results, opResult.name.s, opResult.result)
    ELSE results

\* A return that ignores pipeline.$return
returnValueResults(pipeline, f, wall, st) == Ret(f.results, st)

\* The return value: pipeline.$return resolved, or the results object
returnValue(pipeline, f, wall, st) ==
    IF jsTruthy(pipeline.return)
    THEN resolveValue(pipeline.return, createCtx(f, wall), st)
    ELSE Ret(f.results, st)

\* The frame suspended at `await executeOperation(operation, ctx)` of step i,
\* given what that call has done (out), and the tempIdCounter it left
suspended(f, i, out) ==
    [f |-> [f EXCEPT
               !.status = "awaiting",
               !.idx = i,
               !.results = written(out.h, out.op.args, @),
               !.pending = [kind |-> out.kind, op |-> out.op, err |-> out.err,
                            ns |-> out.ns, fx |-> out.fx, h |-> out.h],
               !.gen = out.st.gen,
               !.log = @ \o Events(out.evs, i)],
     ctr |-> out.st.ctr]

\* The frame after `return { operations: operationResults, result: returnValue }`,
\* given the resolution rv of the return value
finished(f, i, rv) ==
    [f |-> [f EXCEPT
               !.status = "resolved",
               !.idx = i,
               !.pending = NoPending,
               !.gen = rv.st.gen,
               !.returned = PipelineResult(f.operationResults, rv.v),
               !.log = Append(@, [ev |-> "return", step |-> i])],
     ctr |-> rv.st.ctr]

\* executePipeline from the head of the for loop at step i, up to its next
\* await or its return: the new frame and the new tempIdCounter
loopFrom(f, i, wall, ps, ctr) ==
    IF i <= Len(execute(held(objects.dsls, f.pid, Dsls)).pipe)
    THEN suspended(f, i,
                   executeOperation(execute(held(objects.dsls, f.pid, Dsls)).pipe[i],
                                    createCtx(f, wall),
                                    [ctr |-> ctr, gen |-> f.gen], ps))
    ELSE finished(f, i,
                  returnValue(execute(held(objects.dsls, f.pid, Dsls)), f, wall,
                              [ctr |-> ctr, gen |-> f.gen]))

\* An executePipeline that writes the resolved arguments of a step over the
\* $with of the step
handedResolved(objs, f) ==
    [dsls |-> (f.pid :>
                  IF f.status = "awaiting" /\ f.pending.kind = "handler"
                        /\ isPipeline(held(objs.dsls, f.pid, Dsls))
                  THEN [held(objs.dsls, f.pid, Dsls) EXCEPT
                           !.pipe[f.idx].with = f.pending.op.args]
                  ELSE held(objs.dsls, f.pid, Dsls)) @@ objs.dsls,
     inputs |-> (f.iid :> held(objs.inputs, f.iid, Inputs)) @@ objs.inputs]

\* The objects handed to execute, once executePipeline has gone on to frame
\* f: the DSL object and the input of f are among them, as they were.
\* resolveValue builds what it returns in arrays and objects of its own, and
\* the loop assigns to results and operationResults alone
handed(objs, f) ==
    [dsls |-> (f.pid :> held(objs.dsls, f.pid, Dsls)) @@ objs.dsls,
     inputs |-> (f.iid :> held(objs.inputs, f.iid, Inputs)) @@ objs.inputs]

\* The frame of execution r and the counter become those of n
Becomes(r, n) ==
    /\ run' = [run EXCEPT ![r] = n.f]
    /\ tempIdCounter' = n.ctr
    /\ objects' = handed(objects, n.f)

\* throw new EvaluationError("Invalid DSL: expected Operation or Pipeline")
InvalidDsl == EvaluationError(<<"Invalid DSL: expected Operation or Pipeline">>)

\* The frame of a call that execute has rejected, and the counter as it was
invalid(f, ctr) ==
    [f |-> [f EXCEPT !.status = "rejected", !.returned = Rejection(InvalidDsl)],
     ctr |-> ctr]

\* An execute that looks up the handlers of all the steps when it is called
enteredLookedUp(f, wall, ps, ctr) ==
    LET pipe == execute(held(objects.dsls, f.pid, Dsls)).pipe
        err(i) == lookupError(ps, pipe[i].do, parseEffect(pipe[i].do)[1],
                              parseEffect(pipe[i].do)[2])
        unknown == {i \in 1..Len(pipe) : err(i).kind # "none"}
    IN  IF ~isDSL(held(objects.dsls, f.pid, Dsls)) THEN invalid(f, ctr)
        ELSE IF unknown # {}
        THEN [f |-> [f EXCEPT
                        !.status = "rejected",
                        !.returned =
                            Rejection(err(CHOOSE i \in unknown :
                                              \A j \in unknown : i <= j))],
              ctr |-> ctr]
        ELSE loopFrom(f, 1, wall, ps, ctr)

\* execute(dsl, input, options) for the frame f of the call: executePipeline
\* on the pipeline of dsl up to its first await, or the rejection
entered(f, wall, ps, ctr) ==
    IF isDSL(held(objects.dsls, f.pid, Dsls)) THEN loopFrom(f, 1, wall, ps, ctr) ELSE invalid(f, ctr)

\* A call of execute(dsl, input, options), with one of the values pids, up
\* to the first await of executePipeline
Call(r, pids) ==
    /\ run[r].status = "idle"
    /\ \A q \in DOMAIN run : q < r => run[q].status # "idle"
    /\ \E pid \in pids, iid \in 1..Len(Inputs),
          oid \in 1..Len(Options), wall \in WallTimes :
          Becomes(r, entered([IdleRun EXCEPT !.pid = pid, !.iid = iid, !.oid = oid],
                             wall, plugins, tempIdCounter))
    /\ UNCHANGED <<plugins, regCalls, lastReg, caller>>

\* The frame f with its awaited call logged as settled
settled(f) == [f EXCEPT !.log = Append(@, [ev |-> "settle", step |-> f.idx])]

\* A loop that keeps no OperationResult of a skipped step
pushedUnlessSkipped(f) ==
    [f EXCEPT !.operationResults =
                  IF f.pending.op.skipped THEN @ ELSE Append(@, f.pending.op),
              !.results = storeResult(@, f.pending.op)]

\* The frame after `operationResults.push(opResult)` and the store of a named
\* result
pushed(f) ==
    [f EXCEPT !.operationResults = Append(@, f.pending.op),
              !.results = storeResult(@, f.pending.op)]

\* An executePipeline that catches the error of a step and goes on
ResumeSwallowing(r) ==
    /\ run[r].status = "awaiting"
    /\ \E wall \in WallTimes :
           Becomes(r, loopFrom(pushed(settled(run[r])), nextStep(run[r].idx),
                               wall, plugins, tempIdCounter))
    /\ UNCHANGED <<plugins, regCalls, lastReg, caller>>

\* An await that goes on only while no other execution is suspended
awaitingAlone(r) ==
    /\ run[r].status = "awaiting"
    /\ \A q \in DOMAIN run : q # r => run[q].status # "awaiting"

\* The execution r is suspended at the `await` of its loop
awaiting(r) == run[r].status = "awaiting"

\* The awaited executeOperation call settles and executePipeline goes on, up
\* to its next await, its return or its rejection
Resume(r) ==
    /\ awaiting(r)
    /\ IF run[r].pending.err.kind # "none"
       THEN /\ run' = [run EXCEPT ![r] =
                         [settled(run[r]) EXCEPT
                            !.status = "rejected",
                            !.returned = Rejection(run[r].pending.err)]]
            /\ UNCHANGED <<tempIdCounter, objects>>
       ELSE \E wall \in WallTimes :
                Becomes(r, loopFrom(pushed(settled(run[r])), nextStep(run[r].idx),
                                    wall, plugins, tempIdCounter))
    /\ UNCHANGED <<plugins, regCalls, lastReg, caller>>

\* The context of the caller, as resolveValue sees it during a call in which
\* new Date() reads wall
callerCtx(c, wall) ==
    [input |-> Contexts[c.cid].input, results |-> Contexts[c.cid].results,
     now |-> Contexts[c.cid].now, tempId |-> Contexts[c.cid].tempId,
     wall |-> wall]

\* The caller and the counter after the call, given what the call returned
returnedTo(c, vid, wall, r) ==
    [c |-> [c EXCEPT !.gen = r.st.gen, !.calls = @ + 1, !.vid = vid,
                     !.wall = wall, !.out = r.v],
     ctr |-> r.st.ctr]

\* The caller's call resolveValue(Expressions[vid], ctx)
called(c, vid, wall, ctr) ==
    returnedTo(c, vid, wall,
               resolveValue(Expressions[vid], callerCtx(c, wall),
                            [ctr |-> ctr, gen |-> c.gen]))

\* The caller and the counter become those of n
Returns(n) ==
    /\ caller' = n.c
    /\ tempIdCounter' = n.ctr

\* A call of resolveValue by the caller
CallResolveValue ==
    /\ caller.cid # 0
    /\ caller.calls < MaxResolves
    /\ \E vid \in 1..Len(Expressions), wall \in WallTimes :
           Returns(called(caller, vid, wall, tempIdCounter))
    /\ UNCHANGED <<plugins, regCalls, lastReg, run, objects>>

resetTempIdCounter ==
    /\ tempIdCounter' = 0
    /\ UNCHANGED <<plugins, regCalls, lastReg, run, caller, objects>>

\* A caller with a context of its own, before its first call
InitResolve ==
    /\ plugins = <<>>
    /\ tempIdCounter = 0
    /\ regCalls = 0
    /\ lastReg = [ns \in Namespaces |-> NoPlugin]
    /\ run = [r \in RunIds |-> IdleRun]
    /\ caller \in {[NoCaller EXCEPT !.cid = cid] : cid \in 1..Len(Contexts)}
    /\ objects = [dsls |-> <<>>, inputs |-> <<>>]

\* resolveValue calls on one context, with resets of the counter at any point
NextResolve ==
    \/ CallResolveValue
    \/ resetTempIdCounter

SpecResolve == InitResolve /\ [][NextResolve]_vars

\* One execution of any of the pipelines, with registry calls at any point
Next ==
    \/ \E plugin \in Plugins : registerPlugin(plugin)
    \/ \E namespace \in Namespaces : unregisterPlugin(namespace)
    \/ clearPlugins
    \/ Call(1, ReadingPids)
    \/ Resume(1)

Spec == Init /\ [][Next]_vars

\* One execution of a pipeline with a handler that writes to the results of
\* its context, with registry calls at any point
NextWriting ==
    \/ \E plugin \in Plugins : registerPlugin(plugin)
    \/ \E namespace \in Namespaces : unregisterPlugin(namespace)
    \/ clearPlugins
    \/ Call(1, WritingPids)
    \/ Resume(1)

SpecWriting == Init /\ [][NextWriting]_vars

\* One call of execute on a single operation, on the pipeline of that one
\* step, or on what is neither, with registry calls at any point
NextExecute ==
    \/ \E plugin \in Plugins : registerPlugin(plugin)
    \/ \E namespace \in Namespaces : unregisterPlugin(namespace)
    \/ clearPlugins
    \/ Call(1, ExecutePids)
    \/ Resume(1)

SpecExecute == Init /\ [][NextExecute]_vars

\* The pipelines of the interleaved executions: guardedPipeline,
\* returningPipeline and refGuardedPipeline
ConcurrentPids == {2, 6, 8}

\* Several executions interleaving at their awaits, with registry calls at
\* any point
NextConcurrent ==
    \/ \E plugin \in Plugins : registerPlugin(plugin)
    \/ \E namespace \in Namespaces : unregisterPlugin(namespace)
    \/ clearPlugins
    \/ \E r \in RunIds : Call(r, ConcurrentPids)
    \/ \E r \in RunIds : Resume(r)

SpecConcurrent == Init /\ [][NextConcurrent]_vars

\* Interleaved executions in which every handler the first execution calls
\* settles (the await of a skipped or failed step settles by itself), and a
\* handler the second calls may never settle.
\* The fairness condition is WF_vars(Resume(1)) with ENABLED <<Resume(1)>>_vars
\* written as the guard of Resume(1): whenever the guard holds Resume(1) can
\* take a step, and the step appends to the log of the execution
SpecSettling ==
    /\ Init
    /\ [][NextConcurrent]_vars
    /\ ([]<>(~awaiting(1)) \/ []<><<Resume(1)>>_vars)

\* Two executions of complexPipeline or returningPipeline interleaving at
\* their awaits, with registry calls at any point and no call of
\* resetTempIdCounter
NextTemps ==
    \/ \E plugin \in Plugins : registerPlugin(plugin)
    \/ \E namespace \in Namespaces : unregisterPlugin(namespace)
    \/ clearPlugins
    \/ \E r \in RunIds : Call(r, {6, 20})
    \/ \E r \in RunIds : Resume(r)

SpecTemps == Init /\ [][NextTemps]_vars

\* The pipeline of the isolated executions: returningPipeline, with a
\* create handler, a $when, a $now, and a $temp in its $return
IsolatedPids == {6}

\* The executions of SpecIsolated
IsolatedRunIds == 1..3

\* The registry is set up before the first execution is called
SetUp == \A r \in IsolatedRunIds : run[r].status = "idle"

InitIsolated ==
    /\ plugins = <<>>
    /\ tempIdCounter = 0
    /\ regCalls = 0
    /\ lastReg = [ns \in Namespaces |-> NoPlugin]
    /\ run = [r \in IsolatedRunIds |-> IdleRun]
    /\ caller = NoCaller
    /\ objects = [dsls |-> <<>>, inputs |-> <<>>]

\* Registrations for the namespace "entity", then three executions
\* interleaving at their awaits with no registry call among them; each
\* execution has the temp-id generator of its options to itself
NextIsolated ==
    \/ SetUp /\ \E plugin \in {entityPlugin, entityPluginV2} : registerPlugin(plugin)
    \/ \E r \in IsolatedRunIds : Call(r, IsolatedPids)
    \/ \E r \in IsolatedRunIds : Resume(r)

SpecIsolated == InitIsolated /\ [][NextIsolated]_vars

\* ---------------------------------------------------------------------------
\* Properties
\* ---------------------------------------------------------------------------

\* Where the log of frame f has event ev of step i
Positions(f, ev, i) ==
    {p \in 1..Len(f.log) : f.log[p].ev = ev /\ f.log[p].step = i}

\* The steps whose handler was called, in call order
RECURSIVE InvokedFrom(_, _)
InvokedFrom(log, p) ==
    IF p > Len(log) THEN <<>>
    ELSE IF log[p].ev = "invoke" THEN <<log[p].step>> \o InvokedFrom(log, p + 1)
    ELSE InvokedFrom(log, p + 1)

Invoked(f) == InvokedFrom(f.log, 1)

\* The steps whose handler has been called and has not settled
InFlight(f) ==
    {i \in 1..Len(Pipelines[f.pid].pipe) :
        Positions(f, "invoke", i) # {} /\ Positions(f, "settle", i) = {}}

Started == {r \in RunIds : run[r].status # "idle"}

\* C1: in every execution, interleaved with others or not, the handlers are
\* called for exactly the steps that are not skipped, in declared order and
\* each once; nothing of a step is evaluated before every earlier step has
\* settled, and at most one handler of the execution is in flight.
C1_SequentialSteps ==
    \A r \in Started :
        LET f == run[r]
            n == Len(Pipelines[f.pid].pipe)
        IN  /\ \A p, q \in 1..Len(f.log) : p < q => f.log[p].step <= f.log[q].step
            /\ \A i \in 1..n : Cardinality(Positions(f, "invoke", i)) <= 1
            /\ \A i \in 1..n : i < f.idx =>
                   /\ Positions(f, "settle", i) # {}
                   /\ i <= Len(f.operationResults)
                   /\ f.operationResults[i].effect = Pipelines[f.pid].pipe[i].do
                   /\ (Positions(f, "invoke", i) # {}) = ~f.operationResults[i].skipped
            /\ \A p \in 1..Len(f.log) :
                   f.log[p].ev # "settle" =>
                       \A i \in 1..n : i < f.log[p].step =>
                           \E q \in Positions(f, "settle", i) : q < p
            /\ Cardinality(InFlight(f)) <= 1

\* An execution of guardedPipeline that has skipped its second step and
\* called the handlers of its first and third, completed while the other
\* execution has a handler in flight
C1_Witness ==
    /\ run[1].status = "resolved"
    /\ run[1].pid = 2
    /\ Invoked(run[1]) = <<1, 3>>
    /\ run[1].operationResults[2].skipped
    /\ run[2].status = "awaiting"
    /\ InFlight(run[2]) # {}

\* The steps of frame f that have completed: their OperationResult is pushed
Completed(f) == 1..Len(f.operationResults)

\* The completed steps of frame f whose handler was called
Ran(f) == {i \in Completed(f) : Positions(f, "invoke", i) # {}}

\* The $as names the steps `steps` of frame f declare
NamesOf(f, steps) ==
    {Pipelines[f.pid].pipe[i].as.s :
        i \in {j \in steps : Pipelines[f.pid].pipe[j].as.t = "str"}}

\* C2: at every point of an execution, every key of its results object is
\* the $as name of a completed step of this execution whose handler was
\* called; a skipped step, named or not, and an unnamed step add no key.
C2_ResultKeys ==
    \A r \in Started :
        keySet(run[r].results) \subseteq NamesOf(run[r], Ran(run[r]))

\* A completed execution of returningPipeline whose second step, named "t",
\* was skipped: the results object has the key "s" alone
C2_Witness ==
    /\ run[1].status = "resolved"
    /\ run[1].pid = 6
    /\ run[1].operationResults[2].skipped
    /\ run[1].operationResults[2].name = Str(<<"t">>)
    /\ keySet(run[1].results) = {<<"s">>}

\* C3: once a step of an execution has raised (on its handler lookup, or in
\* its handler), nothing of a later step is evaluated and no PipelineResult
\* is returned; the execution rejects with the error the step raised, and
\* rejects only so.
C3_FirstErrorRejects ==
    \A r \in Started :
        LET f == run[r]
        IN  /\ \A p \in 1..Len(f.log) :
                   f.log[p].ev \in {"throw", "reject"} =>
                       /\ f.status \in {"awaiting", "rejected"}
                       /\ f.idx = f.log[p].step
                       /\ f.pending.err.kind # "none"
                       /\ \A q \in 1..Len(f.log) :
                              q > p => /\ f.log[q].ev = "settle"
                                       /\ f.log[q].step = f.log[p].step
                       /\ f.returned.kind # "result"
                       /\ f.returned.operations = <<>>
                       /\ f.returned.result = Undef
            /\ f.status = "rejected" =>
                   /\ \E p \in 1..Len(f.log) : f.log[p].ev \in {"throw", "reject"}
                   /\ f.returned.kind = "error"
                   /\ f.returned.err = f.pending.err
            /\ f.status = "resolved" => f.returned.kind = "result"

\* An execution of bogusPipeline rejected by its second step, after its
\* first step has completed and stored its result
C3_Witness ==
    /\ run[1].status = "rejected"
    /\ run[1].pid = 3
    /\ run[1].idx = 2
    /\ Len(run[1].operationResults) = 1
    /\ keySet(run[1].results) = {<<"x">>}
    /\ run[1].returned.err = EvaluationError(<<"Unknown effect: ", "entity", DOT, "bogus">>)

\* Execution r takes up a step in this transition
TakesUpStep(r) ==
    /\ run'[r].status = "awaiting"
    /\ run[r].status = "idle" \/ run'[r].idx # run[r].idx

\* The operation of the step frame f is at
StepOf(f) == Pipelines[f.pid].pipe[f.idx]

\* What the events of step i in the log of frame f are, in order
RECURSIVE EventsFrom(_, _, _)
EventsFrom(log, i, p) ==
    IF p > Len(log) THEN <<>>
    ELSE IF log[p].step = i THEN <<log[p].ev>> \o EventsFrom(log, i, p + 1)
    ELSE EventsFrom(log, i, p + 1)

\* C4: when an execution takes up a step whose $when is present and resolves
\* to a DSL-falsy value, executeOperation returns skipped = true, result
\* undefined and args = {} having evaluated the condition alone: the temp-id
\* counter and the generator are where the condition left them (no $temp of
\* $with has advanced them), and no lookup is made, so no error is raised
\* whatever $do names.
C4_FalsyWhenSkips ==
    [][\A r \in RunIds :
          TakesUpStep(r) =>
              LET f == run'[r]
                  op == StepOf(f)
                  cond == resolveValue(op.when, createCtx(f, 1),
                                       [ctr |-> tempIdCounter, gen |-> run[r].gen])
              IN  (op.when.t # "undef" /\ ~isTruthy(cond.v)) =>
                      /\ f.pending =
                             [kind |-> "skipped",
                              op |-> OperationResult(op.as, op.do, Obj(<<>>), Undef, TRUE),
                              err |-> NoError, ns |-> <<>>, fx |-> <<>>, h |-> ""]
                      /\ tempIdCounter' = cond.st.ctr
                      /\ f.gen = cond.st.gen
                      /\ EventsFrom(f.log, f.idx, 1) = <<"when">>
    ]_vars

\* An execution of guardedPipeline on the input with flag = false has skipped
\* its second step, whose $with holds a $temp and whose $do names a namespace
\* that is not registered: the counter is still 0 and the execution has
\* completed
C4_Witness ==
    /\ run[1].status = "resolved"
    /\ run[1].pid = 2
    /\ run[1].oid = 1
    /\ run[1].operationResults[2] =
           OperationResult(Str(<<"d">>), <<"nope", DOT, "run">>, Obj(<<>>), Undef, TRUE)
    /\ ~mapHas(plugins, <<"nope">>)
    /\ tempIdCounter = 0

\* The entries of the object expression v that are a { $ref: path }
RefEntries(v) ==
    {p \in 1..Len(v.kids) :
        /\ v.kids[p].v.t = "obj"
        /\ hasKey(v.kids[p].v, <<"$ref">>)
        /\ ~hasKey(v.kids[p].v, <<"$input">>)}

\* The segments of the path of the $ref at entry p of v
RefPath(v, p) == split(getKey(v.kids[p].v, <<"$ref">>).s)

\* The last step before step i of frame f that completed with its handler
\* called and declares $as = name; 0 when there is none
LastNamed(f, i, name) ==
    LET S == {j \in Ran(f) : j < i /\ Pipelines[f.pid].pipe[j].as = Str(name)}
    IN  IF S = {} THEN 0 ELSE CHOOSE j \in S : \A k \in S : k <= j

\* The value found at the segments of path after the first, in the output of
\* the handler of step j
OutputAt(f, j, path) == WalkParts(f.operationResults[j].result, path, 2)

\* C5: when a step's arguments hold { $ref: "n.f" } and an earlier step of
\* the execution that was not skipped declares $as = n, the argument the
\* handler receives is field f of the value the handler of the last such
\* step returned, not a field of that step's arguments.
C5_RefSeesHandlerOutput ==
    \A r \in Started :
        LET f == run[r]
        IN  \A i \in Ran(f) :
                LET with == Pipelines[f.pid].pipe[i].with
                IN  \A p \in RefEntries(with) :
                        LET j == LastNamed(f, i, RefPath(with, p)[1])
                        IN  j # 0 =>
                                getKey(f.operationResults[i].args, with.kids[p].k)
                                    = OutputAt(f, j, RefPath(with, p))

\* guardedPipeline has completed: its first step, named "d", was called with
\* deleted = "no" and its handler returned deleted = true; the third step's
\* handler received seen = true for { $ref: "d.deleted" }
C5_Witness ==
    /\ run[1].status = "resolved"
    /\ run[1].pid = 2
    /\ getKey(run[1].operationResults[1].args, <<"deleted">>) = Str(<<"no">>)
    /\ getKey(run[1].operationResults[1].result, <<"deleted">>) = Bool(TRUE)
    /\ getKey(run[1].operationResults[3].args, <<"seen">>) = Bool(TRUE)

\* C6: a $ref whose name no earlier step of the execution has stored (the
\* step has not run yet, was skipped, or there is none of that name) resolves
\* to undefined, in the arguments of a step and in $return alike, and the
\* step goes on to its handler lookup: the reference raises nothing.
C6_UnstoredRefIsMissing ==
    \A r \in Started :
        LET f == run[r]
            pipeline == Pipelines[f.pid]
        IN  /\ \A i \in 1..Len(pipeline.pipe) :
                   (Positions(f, "with", i) # {}) => Positions(f, "lookup", i) # {}
            /\ \A i \in Ran(f) :
                   \A p \in RefEntries(pipeline.pipe[i].with) :
                       LastNamed(f, i, RefPath(pipeline.pipe[i].with, p)[1]) = 0 =>
                           /\ hasKey(f.operationResults[i].args,
                                     pipeline.pipe[i].with.kids[p].k)
                           /\ getKey(f.operationResults[i].args,
                                     pipeline.pipe[i].with.kids[p].k) = Undef
            /\ (f.status = "resolved" /\ pipeline.return.t = "obj") =>
                   \A p \in RefEntries(pipeline.return) :
                       LastNamed(f, Len(pipeline.pipe) + 1,
                                 RefPath(pipeline.return, p)[1]) = 0 =>
                           /\ hasKey(f.returned.result, pipeline.return.kids[p].k)
                           /\ getKey(f.returned.result, pipeline.return.kids[p].k) = Undef

\* C7: when an execution takes up a step that is not skipped, a namespace
\* with no registered plugin makes it throw an unknown-namespace error naming
\* the namespace, and a registered namespace whose effects lack the effect
\* name makes it throw an unknown-effect error naming the whole $do string;
\* in both cases no handler is called and the results object is as it was.
C7_LookupErrors ==
    [][\A r \in RunIds :
          /\ (TakesUpStep(r) /\ run'[r].pending.kind # "skipped") =>
                LET f == run'[r]
                    parts == parseEffect(StepOf(f).do)
                    unknown == IF ~mapHas(plugins, parts[1])
                               THEN <<"Unknown plugin namespace: ">> \o parts[1]
                               ELSE <<"Unknown effect: ">> \o StepOf(f).do
                IN  (~mapHas(plugins, parts[1])
                        \/ ~ownEffect(mapGet(plugins, parts[1]), parts[2])) =>
                        /\ f.pending.kind = "throw"
                        /\ f.pending.err = EvaluationError(unknown)
                        /\ f.pending.h = ""
                        /\ Positions(f, "invoke", f.idx) = {}
          /\ (run[r].status = "awaiting" /\ run[r].pending.kind = "throw") =>
                /\ run'[r].status \in {"awaiting", "rejected"}
                /\ run'[r].results = run[r].results
    ]_vars

\* C8: the handler a step calls is looked up under the text of $do before
\* its first dot as namespace and all the text after that dot as effect name
\* ("b.c" in "a" for "a.b.c"); a $do with no dot is looked up in "core" under
\* the whole string.
C8_SplitOnFirstDot ==
    \A r \in Started :
        LET f == run[r]
            do == StepOf(f).do
            firstDot == CHOOSE i \in 1..Len(do) :
                            do[i] = DOT /\ \A j \in 1..(i - 1) : do[j] # DOT
        IN  (f.status = "awaiting" /\ f.pending.kind = "handler") =>
                IF includesDot(do)
                THEN /\ f.pending.ns = SubSeq(do, 1, firstDot - 1)
                     /\ f.pending.fx = SubSeq(do, firstDot + 1, Len(do))
                ELSE /\ f.pending.ns = <<"core">>
                     /\ f.pending.fx = do

\* The namespaces whose last register has not been followed by an unregister
\* of the namespace or a clear
Live == {ns \in Namespaces : lastReg[ns] # NoPlugin}

\* C9: after any registry calls the registry holds one plugin at most per
\* namespace, getPluginNamespaces lists exactly the namespaces whose last
\* register was not followed by an unregister of it or a clear, and the
\* plugin held for a namespace is the one last registered for it, whole; a
\* step is dispatched to the handler that plugin has for the effect name, and
\* fails its lookup only when there is no such plugin or handler.
C9_LastRegistrationWins ==
    /\ [](/\ \A i, j \in 1..Len(plugins) :
                plugins[i].namespace = plugins[j].namespace => i = j
          /\ Len(getPluginNamespaces) = Cardinality(Live)
          /\ {getPluginNamespaces[i] : i \in 1..Len(getPluginNamespaces)} = Live
          /\ \A ns \in Live : mapGet(plugins, ns) = lastReg[ns])
    /\ [][\A r \in RunIds :
             (TakesUpStep(r) /\ run'[r].pending.kind # "skipped") =>
                 LET pending == run'[r].pending
                 IN  IF pending.ns \in Live /\ hasEffect(lastReg[pending.ns], pending.fx)
                     THEN /\ pending.kind = "handler"
                          /\ pending.h = effectHandler(lastReg[pending.ns], pending.fx)
                     ELSE pending.kind = "throw"
       ]_vars

\* sessionPipeline has completed with its first step dispatched to the create
\* handler of entityPlugin and, entityPluginV2 having been registered
\* meanwhile, its second step to the create handler of entityPluginV2
C9_Witness ==
    /\ run[1].status = "resolved"
    /\ run[1].pid = 1
    /\ hasOwn(run[1].operationResults[1].result, <<"id">>)
    /\ run[1].operationResults[2].result = Obj(<<KV(<<"deleted">>, Bool(TRUE))>>)
    /\ plugins = <<entityPluginV2>>
    /\ getPluginNamespaces = <<<<"entity">>>>
    /\ regCalls = 2

\* The results object built from the outputs of the completed steps of frame
\* f from step i on, on top of acc
RECURSIVE StoredFrom(_, _, _)
StoredFrom(f, i, acc) ==
    IF i > Len(f.operationResults) THEN acc
    ELSE IF i \in Ran(f) /\ Pipelines[f.pid].pipe[i].as.t = "str"
    THEN StoredFrom(f, i + 1,
                    setKey(acc, Pipelines[f.pid].pipe[i].as.s,
                           f.operationResults[i].result))
    ELSE StoredFrom(f, i + 1, acc)

\* C10: the result of a completed execution is, when the pipeline has a
\* $return, an object with the keys of $return in which every { $ref: path }
\* holds what path leads to in the outputs stored by all the steps, every
\* $temp a temp id and every $now a date; with no $return it is the results
\* object, whose keys are the $as names of the named steps that were not
\* skipped and whose values are the outputs of their handlers.
C10_ReturnValue ==
    \A r \in Started :
        LET f == run[r]
            pipeline == Pipelines[f.pid]
            final == StoredFrom(f, 1, Obj(<<>>))
            result == f.returned.result
        IN  f.status = "resolved" =>
                /\ Len(f.operationResults) = Len(pipeline.pipe)
                /\ IF pipeline.return.t = "obj"
                   THEN /\ result.t = "obj"
                        /\ Len(result.kids) = Len(pipeline.return.kids)
                        /\ \A p \in 1..Len(pipeline.return.kids) :
                               /\ result.kids[p].k = pipeline.return.kids[p].k
                               /\ p \in RefEntries(pipeline.return) =>
                                      result.kids[p].v =
                                          WalkParts(final, RefPath(pipeline.return, p), 1)
                               /\ pipeline.return.kids[p].v = RefTemp =>
                                      result.kids[p].v.t = "str"
                               /\ pipeline.return.kids[p].v = RefNow =>
                                      result.kids[p].v.t = "date"
                   ELSE /\ result = f.results
                        /\ keySet(result) = NamesOf(f, Ran(f))
                        /\ \A name \in keySet(result) :
                               getKey(result, name) =
                                   f.operationResults[
                                       LastNamed(f, Len(pipeline.pipe) + 1, name)].result

\* returningPipeline has completed with all three steps run: its result has
\* the id of the output stored as "s", the deleted flag of the output stored
\* as "t", and a temp id
C10_Witness ==
    /\ run[1].status = "resolved"
    /\ run[1].pid = 6
    /\ Ran(run[1]) = {1, 2, 3}
    /\ getKey(run[1].returned.result, <<"sid">>) =
           getKey(run[1].operationResults[1].result, <<"id">>)
    /\ getKey(run[1].returned.result, <<"sid">>).t = "str"
    /\ getKey(run[1].returned.result, <<"gone">>) = Bool(TRUE)
    /\ getKey(run[1].returned.result, <<"tag">>).t = "str"
    /\ run[1].returned.result # run[1].results

\* The results object built from the outputs of the first n steps of frame f
RECURSIVE StoredUpTo(_, _)
StoredUpTo(f, n) ==
    IF n = 0 THEN Obj(<<>>)
    ELSE IF n \in Ran(f) /\ Pipelines[f.pid].pipe[n].as.t = "str"
    THEN setKey(StoredUpTo(f, n - 1), Pipelines[f.pid].pipe[n].as.s,
                f.operationResults[n].result)
    ELSE StoredUpTo(f, n - 1)

\* The completed steps of frame f whose $when is a { $ref: path }
RefGuarded(f) ==
    {i \in Completed(f) :
        /\ Pipelines[f.pid].pipe[i].when.t = "obj"
        /\ hasOwn(Pipelines[f.pid].pipe[i].when, <<"$ref">>)}

\* C11: every execution has a results object of its own, empty when it
\* starts and holding the outputs of its own steps alone; a $ref in a $with,
\* a $when or the $return of an execution resolves to what its path leads to
\* in the outputs this execution has stored so far, whatever another
\* execution, earlier or interleaved, of the same pipeline or another, has
\* stored under the name.
C11_OwnResults ==
    \A r \in Started :
        LET f == run[r]
            pipeline == Pipelines[f.pid]
        IN  /\ f.results = StoredUpTo(f, Len(f.operationResults))
            /\ Len(f.operationResults) = 0 => f.results = Obj(<<>>)
            /\ \A i \in Ran(f) :
                   \A p \in RefEntries(pipeline.pipe[i].with) :
                       getKey(f.operationResults[i].args, pipeline.pipe[i].with.kids[p].k)
                           = WalkParts(StoredUpTo(f, i - 1),
                                       RefPath(pipeline.pipe[i].with, p), 1)
            /\ \A i \in RefGuarded(f) :
                   f.operationResults[i].skipped =
                       ~isTruthy(WalkParts(StoredUpTo(f, i - 1),
                                           split(getKey(pipeline.pipe[i].when,
                                                        <<"$ref">>).s), 1))
            /\ (f.status = "resolved" /\ pipeline.return.t = "obj") =>
                   \A p \in RefEntries(pipeline.return) :
                       getKey(f.returned.result, pipeline.return.kids[p].k)
                           = WalkParts(StoredUpTo(f, Len(pipeline.pipe)),
                                       RefPath(pipeline.return, p), 1)

\* Two executions of refGuardedPipeline: the first, on the input with flag =
\* true, has stored "a" and "b"; the second, on the input with flag = false,
\* has skipped its first step and then its second, whose $when is
\* { $ref: "a.ok" }, and its third step received got = undefined
C11_Witness ==
    /\ run[1].status = "resolved"
    /\ run[1].pid = 8
    /\ keySet(run[1].results) = {<<"a">>, <<"b">>}
    /\ run[2].status = "resolved"
    /\ run[2].pid = 8
    /\ run[2].iid = 2
    /\ run[2].operationResults[2].skipped
    /\ getKey(run[2].operationResults[3].args, <<"got">>) = Undef
    /\ run[2].results = Obj(<<>>)

\* C12: the results object of an execution is empty when the execution
\* starts and changes only when the loop stores the output of a named step
\* that was not skipped, once the handler of the step has returned; calling a
\* handler changes nothing of it, whatever the handler does with the results
\* of its context.
C12_OnlyTheLoopWrites ==
    [][\A r \in RunIds :
          /\ (run[r].status = "idle" /\ run'[r].status # "idle") =>
                 run'[r].results = Obj(<<>>)
          /\ (run[r].status = "awaiting" /\ run'[r] # run[r]) =>
                 run'[r].results =
                     IF run[r].pending.err.kind = "none"
                     THEN storeResult(run[r].results, run[r].pending.op)
                     ELSE run[r].results
    ]_vars

\* The caller makes a call of resolveValue in this transition
Calls == caller'.calls = caller.calls + 1

\* The expression of the call just made, and the call's context
Called == Expressions[caller'.vid]
CalledCtx == callerCtx(caller, caller'.wall)

\* C13: on a context with no generator, an evaluation of { $temp: true }
\* adds one to the shared counter and returns "temp_" followed by the new
\* value of the counter, temp_1 when the counter was 0; two evaluations in
\* succession add two and return two tags that differ, the second with the
\* number next to that of the first.
C13_CounterTags ==
    [][(Calls /\ CalledCtx.tempId = "none") =>
          /\ Called = RefTemp =>
                 /\ tempIdCounter' = tempIdCounter + 1
                 /\ caller'.out = Str(<<"temp_">> \o Decimal(tempIdCounter'))
                 /\ tempIdCounter = 0 => caller'.out = Str(<<"temp_", "1">>)
                 /\ caller.out = Str(<<"temp_">> \o Decimal(tempIdCounter)) =>
                        caller'.out # caller.out
          /\ Called = Arr(<<RefTemp, RefTemp>>) =>
                 /\ tempIdCounter' = tempIdCounter + 2
                 /\ caller'.out = Arr(<<Str(<<"temp_">> \o Decimal(tempIdCounter + 1)),
                                        Str(<<"temp_">> \o Decimal(tempIdCounter + 2))>>)
                 /\ caller'.out.kids[1].v # caller'.out.kids[2].v
    ]_vars

\* The second of two { $temp: true } calls on the context with no generator
\* has returned temp_2
C13_Witness ==
    /\ caller.cid = 1
    /\ caller.calls = 2
    /\ Expressions[caller.vid] = RefTemp
    /\ caller.out = Str(<<"temp_", "2">>)
    /\ tempIdCounter = 2

\* C14: on a context with a generator, every call of resolveValue leaves the
\* shared counter as it was, and an evaluation of { $temp: true } calls the
\* generator once and returns what the generator returned, whatever that is.
C14_GeneratorOnly ==
    [][(Calls /\ CalledCtx.tempId # "none") =>
          /\ tempIdCounter' = tempIdCounter
          /\ Called = RefTemp =>
                 /\ caller'.gen = caller.gen + 1
                 /\ caller'.out = tempIdGen(CalledCtx.tempId, caller'.gen)
    ]_vars

\* The number of { $temp: true } nodes of expression v
RECURSIVE TempsIn(_)
RECURSIVE TempsInEntries(_, _)
TempsInEntries(kids, i) ==
    IF i > Len(kids) THEN 0 ELSE TempsIn(kids[i].v) + TempsInEntries(kids, i + 1)
TempsIn(v) ==
    IF v.t \notin {"obj", "arr"} THEN 0
    ELSE IF hasOwn(v, <<"$temp">>) THEN 1
    ELSE TempsInEntries(v.kids, 1)

\* The temp ids drawn in this transition: from the generator of the caller's
\* context, or from the shared counter when the context has none
Drawn ==
    IF CalledCtx.tempId = "none" THEN tempIdCounter' - tempIdCounter
    ELSE caller'.gen - caller.gen

\* The branch of the conditional cond = obj.$if that is to be resolved in
\* context ctx: then when cond.cond resolves to a truthy value, else (which
\* is undefined when absent) when it does not
TakenBranch(cond, ctx, st) ==
    IF isTruthy(resolveValue(getKey(cond, <<"cond">>), ctx, st).v)
    THEN getKey(cond, <<"then">>)
    ELSE getKey(cond, <<"else">>)

\* The call of this transition returned the resolution of the branch taken,
\* and drew the temp ids of that branch alone
ReturnedBranch(cond, taken, ctx, st) ==
    /\ TempsIn(getKey(cond, <<"cond">>)) = 0
    /\ caller'.out = resolveValue(taken, ctx, st).v
    /\ ~hasOwn(cond, <<"else">>) /\ taken = Undef => caller'.out = Undef
    /\ Drawn = TempsIn(taken)
    /\ ctx.tempId = "none" => caller'.gen = caller.gen

\* C15: a call on { $if: { cond, then, else? } } returns the resolution of
\* then when cond resolves to a truthy value and of else when it does not,
\* undefined when else is absent; the temp ids drawn are those of the branch
\* returned, none for the $temp nodes of the other branch.
C15_SelectedBranchOnly ==
    [][(Calls /\ hasOwn(Called, <<"$if">>)) =>
          ReturnedBranch(getKey(Called, <<"$if">>),
                         TakenBranch(getKey(Called, <<"$if">>), CalledCtx,
                                     [ctr |-> tempIdCounter, gen |-> caller.gen]),
                         CalledCtx, [ctr |-> tempIdCounter, gen |-> caller.gen])
    ]_vars

\* The first call of a caller whose input has isAdmin = false was on
\* { $if: { cond: { $input: "isAdmin" }, then: { id: { $temp: true } } } }:
\* it returned undefined and neither the generator nor the counter has moved
C15_Witness ==
    /\ caller.cid = 2
    /\ caller.calls = 1
    /\ Expressions[caller.vid] =
           IfThen(RefInput(<<"isAdmin">>), Obj(<<KV(<<"id">>, RefTemp)>>))
    /\ caller.out = Undef
    /\ caller.gen = 0
    /\ tempIdCounter = 0

\* The values the truthiness rule has as falsy: null and undefined, false,
\* the number 0, the empty string and the empty array
FalsyValues == {Null, Undef, Bool(FALSE), Num(0), Str(<<>>), Arr(<<>>)}

\* C16: a step is skipped exactly when its $when resolves to null,
\* undefined, false, 0, the empty string or the empty array, and an $if
\* returns its else for exactly these values of its cond; every other value,
\* the empty object and the array of one element among them, makes the step
\* run and the $if return its then.
C16_Truthiness ==
    \A r \in Started :
        LET f == run[r]
        IN  f.pid = 10 =>
                /\ \A i \in Completed(f) :
                       i > 1 =>
                           f.operationResults[i].skipped =
                               (Conditions[i - 1].v \in FalsyValues)
                /\ 1 \in Completed(f) =>
                       \A k \in 1..Len(Conditions) :
                           getKey(f.operationResults[1].args, Decimal(k)) =
                               IF Conditions[k].v \in FalsyValues
                               THEN Str(<<"no">>) ELSE Str(<<"yes">>)

\* truthinessPipeline has completed: the step whose $when is [] was skipped,
\* the step whose $when is {} has run, and the $if on [] returned "no"
C16_Witness ==
    /\ run[1].status = "resolved"
    /\ run[1].pid = 10
    /\ Len(run[1].operationResults) = Len(Conditions) + 1
    /\ Conditions[6].e = Arr(<<>>)
    /\ run[1].operationResults[7].skipped
    /\ Conditions[11].e = Obj(<<>>)
    /\ ~run[1].operationResults[12].skipped
    /\ getKey(run[1].operationResults[1].args, Decimal(6)) = Str(<<"no">>)

\* The tags of the value references
ReferenceTags == {<<"$input">>, <<"$ref">>, <<"$now">>, <<"$temp">>}

\* No object of the value v, at any depth, is a value reference
RECURSIVE NoReference(_)
NoReference(v) ==
    \/ v.t \notin {"obj", "arr"}
    \/ /\ \A tag \in ReferenceTags : ~hasOwn(v, tag)
       /\ \A i \in 1..Len(v.kids) : NoReference(v.kids[i].v)

\* C17: the arguments a handler was called with hold no value reference:
\* every $input, $ref, $now and $temp written in the step's $with, at any
\* depth and under any operator tag, has been resolved.
C17_FullyResolved ==
    \A r \in Started :
        \A i \in Ran(run[r]) : NoReference(run[r].operationResults[i].args)

\* The call of this transition returned the marker tag around the resolution
\* of what expression e carries under it
ReturnedMarker(tag, e, ctx, st) ==
    /\ caller'.out = Marker(tag, resolveValue(getKey(e, tag), ctx, st).v)
    /\ keySet(caller'.out) = {tag}

\* C18: a call on { $inc: n } or { $dec: n } returns the expression as it
\* is, with no temp id drawn and no number computed; a call on { $push: v },
\* { $pull: v } or { $addToSet: v } returns the same tag around the
\* resolution of v.
C18_MarkersPreserved ==
    [][(Calls /\ \A tag \in ReferenceTags : ~hasOwn(Called, tag)) =>
          /\ (hasOwn(Called, <<"$inc">>) \/ hasOwn(Called, <<"$dec">>)) =>
                 /\ caller'.out = Called
                 /\ tempIdCounter' = tempIdCounter
                 /\ caller'.gen = caller.gen
          /\ \A tag \in {<<"$push">>, <<"$pull">>, <<"$addToSet">>} :
                 hasOwn(Called, tag) =>
                     ReturnedMarker(tag, Called, CalledCtx,
                                    [ctr |-> tempIdCounter, gen |-> caller.gen])
    ]_vars

\* The first call of the caller with the input name = "John" was on
\* { $pull: { $input: "name" } } and returned { $pull: "John" }
C18_Witness ==
    /\ caller.cid = 1
    /\ caller.calls = 1
    /\ Expressions[caller.vid] = Marker(<<"$pull">>, RefInput(<<"name">>))
    /\ caller.out = Marker(<<"$pull">>, Str(<<"John">>))

\* The tags of the operators
OperatorTags ==
    {<<"$inc">>, <<"$dec">>, <<"$push">>, <<"$pull">>, <<"$addToSet">>,
     <<"$default">>, <<"$if">>}

\* Expression v is built from literals, plain objects and arrays alone
RECURSIVE IsLiteral(_)
IsLiteral(v) ==
    \/ v.t \in {"str", "num", "bool", "null"}
    \/ /\ v.t \in {"obj", "arr"}
       /\ \A tag \in ReferenceTags \cup OperatorTags : ~hasOwn(v, tag)
       /\ \A i \in 1..Len(v.kids) : IsLiteral(v.kids[i].v)

\* The call of this transition returned the expression e itself, and
\* resolving what it returned gives the same again
ReturnedItself(e, ctx, st) ==
    /\ caller'.out = e
    /\ resolveValue(caller'.out, ctx, st).v = caller'.out

\* C19: a call on an expression of literals, plain objects and arrays
\* returns the expression, with its keys and elements in their order and its
\* leaves as they are, draws no temp id, and resolving the result gives the
\* result again.
C19_LiteralIdentity ==
    [][(Calls /\ IsLiteral(Called)) =>
          /\ ReturnedItself(Called, CalledCtx,
                            [ctr |-> tempIdCounter, gen |-> caller.gen])
          /\ tempIdCounter' = tempIdCounter
          /\ caller'.gen = caller.gen
    ]_vars

\* Walking the segments parts from root comes to a segment that the value
\* reached is no object or array to be indexed with, or has no entry for
MissesSegment(root, parts) ==
    \E j \in 1..Len(parts) :
        \/ ~isObjectLike(WalkParts(root, SubSeq(parts, 1, j - 1), 1))
        \/ ~hasOwn(WalkParts(root, SubSeq(parts, 1, j - 1), 1), parts[j])

\* The call of this transition returned what the segments parts lead to
\* from root, undefined when a segment misses
ReturnedAt(root, parts) ==
    caller'.out = IF MissesSegment(root, parts) THEN Undef
                  ELSE WalkParts(root, parts, 1)

\* C20: a call on { $input: path } returns the value the dot-separated
\* segments of path lead to from the input of the context, and undefined
\* when a segment is absent or the value to be indexed is null, undefined or
\* not an object or array; a call on { $ref: path } does the same from the
\* results of the context. Neither draws a temp id.
C20_PathWalk ==
    [][Calls =>
          /\ hasOwn(Called, <<"$input">>) =>
                 /\ ReturnedAt(CalledCtx.input, split(getKey(Called, <<"$input">>).s))
                 /\ tempIdCounter' = tempIdCounter
          /\ hasOwn(Called, <<"$ref">>) =>
                 /\ ReturnedAt(CalledCtx.results, split(getKey(Called, <<"$ref">>).s))
                 /\ tempIdCounter' = tempIdCounter
    ]_vars

\* What a transition of an execution makes of its frame f and of the counter
\* when new Date() reads wall: the call (for iid and oid of the frame g it
\* leads to), or the awaited call settling and the loop going on
Advanced(f, g, wall) ==
    IF f.status = "idle"
    THEN entered([IdleRun EXCEPT !.pid = f.pid, !.iid = g.iid, !.oid = g.oid],
                 wall, plugins, tempIdCounter)
    ELSE IF f.pending.err.kind # "none"
    THEN [f |-> [settled(f) EXCEPT !.status = "rejected",
                                   !.returned = Rejection(f.pending.err)],
          ctr |-> tempIdCounter]
    ELSE loopFrom(pushed(settled(f)), nextStep(f.idx), wall, plugins, tempIdCounter)

\* The value of Dsls that is the pipeline of the one step Dsls[pid]
OneStepPipeline(pid) ==
    CHOOSE q \in 1..Len(Dsls) : Dsls[q] = Pipeline(<<Dsls[pid]>>, Undef)

\* The transition of execution r is the one a call on Dsls[q] makes from the
\* same state
BehavesAs(r, q, n) ==
    /\ run'[r] = [n.f EXCEPT !.pid = run'[r].pid]
    /\ tempIdCounter' = n.ctr

\* C21: execute called with a pipeline runs executePipeline on that pipeline,
\* and called with a single operation it does, at every transition of the
\* execution, what a call on the pipeline of that one step does from the
\* same state: the same operations list, results, error and return value,
\* and the same temp-id counter.
C21_ExecutePolymorphic ==
    /\ [](\A r \in Started :
             isPipeline(Dsls[run[r].pid]) => Pipelines[run[r].pid] = Dsls[run[r].pid])
    /\ [][\A r \in RunIds :
             (run'[r] # run[r] /\ isOperation(Dsls[run'[r].pid])) =>
                 \E wall \in WallTimes :
                     BehavesAs(r, OneStepPipeline(run'[r].pid),
                               Advanced([run[r] EXCEPT
                                            !.pid = OneStepPipeline(run'[r].pid)],
                                        run'[r], wall))
       ]_vars

\* execute was called with the single operation singleCreate on the input
\* with flag = true and has completed: one OperationResult named "me", its
\* output stored as "me", and one temp id drawn from the counter
C21_Witness ==
    /\ run[1].status = "resolved"
    /\ Dsls[run[1].pid] = singleCreate
    /\ run[1].iid = 1
    /\ run[1].oid = 1
    /\ Len(run[1].returned.operations) = 1
    /\ run[1].returned.operations[1].name = Str(<<"me">>)
    /\ keySet(run[1].returned.result) = {<<"me">>}
    /\ tempIdCounter = 1

\* What item resolves to in a step of frame f after the first (for an item
\* with no $temp and no $now)
ResolvedItem(f, item) ==
    resolveValue(item, createCtx([f EXCEPT !.results = StoredUpTo(f, 1)], 1),
                 [ctr |-> 0, gen |-> 0]).v

\* got is the marker tag around the one item resolved, when items has one
\* item, and around the array of the items resolved, in their order, when
\* it has none or several
CarriesItems(f, got, tag, items) ==
    /\ got.t = "obj"
    /\ Len(got.kids) = 1
    /\ got.kids[1].k = tag
    /\ IF Len(items) = 1
       THEN got.kids[1].v = ResolvedItem(f, items[1])
       ELSE /\ got.kids[1].v.t = "arr"
            /\ Len(got.kids[1].v.kids) = Len(items)
            /\ \A i \in 1..Len(items) :
                   got.kids[1].v.kids[i] = KV(Decimal(i - 1), ResolvedItem(f, items[i]))

\* C22: push, pull and addToSet called with one item build their marker
\* around that item bare, and called with none or several around the array
\* of the items in argument order; the arguments the handler receives have
\* the same shape: the marker around the one item resolved, or around the
\* array of the items resolved, in the same order.
C22_ItemShape ==
    \A r \in Started :
        Dsls[run[r].pid] = builtPipeline =>
            \A b \in 1..3, k \in 1..Len(ItemLists) :
                /\ built(b, ItemLists[k]) =
                       Marker(BuilderTags[b],
                              IF Len(ItemLists[k]) = 1 THEN ItemLists[k][1]
                              ELSE Arr(ItemLists[k]))
                /\ (b + 1) \in Ran(run[r]) =>
                       CarriesItems(run[r],
                                    getKey(run[r].operationResults[b + 1].args,
                                           builtKey(b, k)),
                                    BuilderTags[b], ItemLists[k])

\* builtPipeline has completed: the handler received { $push: "featured" }
\* for push("featured"), { $push: ["a", "b", "c"] } for push("a", "b", "c"),
\* { $pull: [] } for pull() and { $addToSet: [7, "Chat", 0] } for
\* addToSet(ref("first").n, input.title, 0)
C22_Witness ==
    /\ run[1].status = "resolved"
    /\ Dsls[run[1].pid] = builtPipeline
    /\ getKey(run[1].operationResults[2].args, builtKey(1, 1)) =
           Marker(<<"$push">>, Str(<<"featured">>))
    /\ getKey(run[1].operationResults[2].args, builtKey(1, 2)) =
           Marker(<<"$push">>, Arr(<<Str(<<"a">>), Str(<<"b">>), Str(<<"c">>)>>))
    /\ getKey(run[1].operationResults[3].args, builtKey(2, 3)) =
           Marker(<<"$pull">>, Arr(<<>>))
    /\ getKey(run[1].operationResults[4].args, builtKey(3, 8)) =
           Marker(<<"$addToSet">>, Arr(<<Num(7), Str(<<"Chat">>), Num(0)>>))

\* The pairs <<i, j>> of steps of frame f whose handlers were called, i
\* before j, that declare the same $as name, with no such step between them
SameNamed(f) ==
    {ij \in Ran(f) \X Ran(f) :
        /\ ij[1] < ij[2]
        /\ Pipelines[f.pid].pipe[ij[1]].as.t = "str"
        /\ LastNamed(f, ij[2], Pipelines[f.pid].pipe[ij[1]].as.s) = ij[1]
        /\ Pipelines[f.pid].pipe[ij[2]].as = Pipelines[f.pid].pipe[ij[1]].as}

\* The entries of the object expression v that are a $ref to name
RefsTo(v, name) == {p \in RefEntries(v) : RefPath(v, p)[1] = name}

\* Step k of frame f saw the output of step i under name: in the $ref
\* entries of its resolved arguments and, when its $when is a $ref to name,
\* in whether it was skipped
SawOutput(f, k, i, name) ==
    /\ k \in Ran(f) =>
           \A p \in RefsTo(Pipelines[f.pid].pipe[k].with, name) :
               getKey(f.operationResults[k].args, Pipelines[f.pid].pipe[k].with.kids[p].k)
                   = OutputAt(f, i, RefPath(Pipelines[f.pid].pipe[k].with, p))
    /\ (k \in RefGuarded(f)
           /\ split(getKey(Pipelines[f.pid].pipe[k].when, <<"$ref">>).s)[1] = name) =>
           f.operationResults[k].skipped =
               ~isTruthy(OutputAt(f, i, split(getKey(Pipelines[f.pid].pipe[k].when,
                                                     <<"$ref">>).s)))

\* C23: when two steps of an execution that were not skipped declare the
\* same $as name, every $ref to the name evaluated after the first and up to
\* the handler call of the second (the $when and $with of the second
\* included) sees the output of the first step's handler, whole; the results
\* object then holds the output of the second alone under the name, and
\* every $ref evaluated after that, in a later step or in the $return, sees
\* the output of the second.
C23_LastWriteWins ==
    \A r \in Started :
        \A ij \in SameNamed(run[r]) :
            LET f == run[r]
                name == Pipelines[f.pid].pipe[ij[1]].as.s
                later == {k \in Completed(f) : k > ij[2] /\ LastNamed(f, k, name) = ij[2]}
            IN  /\ \A k \in Completed(f) :
                       (ij[1] < k /\ k <= ij[2]) => SawOutput(f, k, ij[1], name)
                /\ \A k \in later : SawOutput(f, k, ij[2], name)
                /\ LastNamed(f, Len(f.operationResults) + 1, name) = ij[2] =>
                       getKey(f.results, name) = f.operationResults[ij[2]].result
                /\ (f.status = "resolved" /\ Pipelines[f.pid].return.t = "obj"
                       /\ LastNamed(f, Len(f.operationResults) + 1, name) = ij[2]) =>
                       \A p \in RefsTo(Pipelines[f.pid].return, name) :
                           getKey(f.returned.result, Pipelines[f.pid].return.kids[p].k)
                               = WalkParts(f.operationResults[ij[2]].result,
                                           RefPath(Pipelines[f.pid].return, p), 2)

\* overwritingPipeline has completed: the step between the two steps named
\* "x", and the second of them, saw v = "one" of the first output; the step
\* after them saw deleted = true of the second output and no v; the $return
\* has the second output
C23_Witness ==
    /\ run[1].status = "resolved"
    /\ Dsls[run[1].pid] = overwritingPipeline
    /\ SameNamed(run[1]) = {<<1, 3>>}
    /\ getKey(run[1].operationResults[2].args, <<"mid">>) = Str(<<"one">>)
    /\ getKey(run[1].operationResults[3].args, <<"own">>) = Str(<<"one">>)
    /\ getKey(run[1].operationResults[4].args, <<"late">>) = Undef
    /\ getKey(run[1].operationResults[4].args, <<"flag">>) = Bool(TRUE)
    /\ getKey(run[1].returned.result, <<"fin">>) = Obj(<<KV(<<"deleted">>, Bool(TRUE))>>)
    /\ getKey(run[1].returned.result, <<"old">>) = Undef

\* The resolution of the arguments of operation op in context ctx, after
\* that of its condition, from the state st
ArgsAt(op, ctx, st) ==
    resolveValue(argsOf(op), ctx, resolveValue(op.when, ctx, st).st)

\* The OperationResult op of a step that is not skipped, whose handler h was
\* called, has the arguments as resolved (a) and what the handler returned
\* for them
CarriesOutput(op, h, ctx, a) ==
    /\ op.args = a.v
    /\ op.result = handle(h, a.v, ctx, a.st).v

\* C24: the operations list of a PipelineResult has one OperationResult for
\* every declared step, skipped steps included, in declared order. Entry i
\* has the $do of step i as effect and its $as as name; for a skipped step
\* it has skipped = true, args = {} and result undefined, and for any other
\* skipped = false, the resolved $with as args and what the handler returned
\* as result. Each entry is appended when its step completes and stays as
\* it is.
C24_OperationsList ==
    /\ [](\A r \in Started :
             run[r].status = "resolved" =>
                 /\ run[r].returned.operations = run[r].operationResults
                 /\ Len(run[r].returned.operations) = Len(Pipelines[run[r].pid].pipe)
                 /\ \A i \in 1..Len(run[r].returned.operations) :
                        /\ run[r].returned.operations[i].effect =
                               Pipelines[run[r].pid].pipe[i].do
                        /\ run[r].returned.operations[i].name =
                               Pipelines[run[r].pid].pipe[i].as
                        /\ run[r].returned.operations[i].skipped =
                               (Positions(run[r], "invoke", i) = {})
                        /\ run[r].returned.operations[i].skipped =>
                               /\ run[r].returned.operations[i].args = Obj(<<>>)
                               /\ run[r].returned.operations[i].result = Undef)
    /\ [][\A r \in RunIds :
             /\ (TakesUpStep(r) /\ run'[r].pending.kind = "handler") =>
                    /\ ~run'[r].pending.op.skipped
                    /\ \E wall \in WallTimes :
                           CarriesOutput(run'[r].pending.op, run'[r].pending.h,
                                         createCtx(run'[r], wall),
                                         ArgsAt(StepOf(run'[r]), createCtx(run'[r], wall),
                                                [ctr |-> tempIdCounter, gen |-> run[r].gen]))
             /\ (run[r].status = "awaiting" /\ run'[r] # run[r]
                    /\ run[r].pending.err.kind = "none") =>
                    run'[r].operationResults =
                        Append(run[r].operationResults, run[r].pending.op)
       ]_vars

\* returningPipeline has completed on the input with flag = false: three
\* entries; the second, of the skipped step named "t", has args = {} and no
\* result; the third, of the unnamed step, has no name and the date its
\* handler returned
C24_Witness ==
    /\ run[1].status = "resolved"
    /\ run[1].pid = 6
    /\ run[1].iid = 2
    /\ Len(run[1].returned.operations) = 3
    /\ run[1].returned.operations[2] =
           OperationResult(Str(<<"t">>), <<"entity", DOT, "delete">>, Obj(<<>>), Undef, TRUE)
    /\ run[1].returned.operations[3].name = Undef
    /\ ~run[1].returned.operations[3].skipped
    /\ getKey(run[1].returned.operations[3].result, <<"at">>).t = "date"
    /\ hasOwn(run[1].returned.operations[1].result, <<"id">>)
    /\ ~hasOwn(run[1].returned.operations[1].args, <<"id">>)

\* The steps of frame f whose handler, entity.peek, was called
Peeked(f) ==
    {k \in Ran(f) : Pipelines[f.pid].pipe[k].do = <<"entity", DOT, "peek">>}

\* The segments of the path step k of frame f hands to its handler
PeekPath(f, k) == split(getKey(Pipelines[f.pid].pipe[k].with, <<"path">>).s)

\* The steps of frame f that declare a $as name no step before them has
\* stored
FirstOfName(f) ==
    {k \in Completed(f) :
        /\ Pipelines[f.pid].pipe[k].as.t = "str"
        /\ LastNamed(f, k, Pipelines[f.pid].pipe[k].as.s) = 0}

\* Step k of frame f has not seen an output under name: the $ref entries of
\* its $with to the name are undefined, its handler resolved a $ref to the
\* name to undefined, and a $when that is a $ref to the name skipped it
SawNone(f, k, name) ==
    /\ k \in Ran(f) =>
           \A p \in RefsTo(Pipelines[f.pid].pipe[k].with, name) :
               getKey(f.operationResults[k].args,
                      Pipelines[f.pid].pipe[k].with.kids[p].k) = Undef
    /\ (k \in Peeked(f) /\ PeekPath(f, k)[1] = name) =>
           getKey(f.operationResults[k].result, <<"got">>) = Undef
    /\ (k \in RefGuarded(f)
           /\ split(getKey(Pipelines[f.pid].pipe[k].when, <<"$ref">>).s)[1] = name) =>
           f.operationResults[k].skipped

\* C25: the resolve callback of the context of step k, called by the
\* handler of step k, resolves a $ref against the outputs stored by the
\* named steps before k that were not skipped, those of all of them and of
\* no other; the output of step k itself is visible to none of its $when,
\* its $with and its handler: a $ref to its own $as is undefined there
\* unless a step before it stored the name.
C25_ResolveSeesLatest ==
    \A r \in Started :
        /\ \A k \in Peeked(run[r]) :
               getKey(run[r].operationResults[k].result, <<"got">>) =
                   WalkParts(StoredUpTo(run[r], k - 1), PeekPath(run[r], k), 1)
        /\ \A k \in FirstOfName(run[r]) :
               SawNone(run[r], k, Pipelines[run[r].pid].pipe[k].as.s)

\* Execution r is isolated: its options have a fixed now and a temp-id
\* generator, which it has to itself
Isolated(r) ==
    /\ Options[run[r].oid].now # Undef
    /\ Options[run[r].oid].tempId # "none"

\* Execution r has resolved or rejected
Settled(r) == run[r].status \in {"resolved", "rejected"}

\* C26: two isolated executions (a fixed now, a temp-id generator of their
\* own, no registry call once the first execution has been called, handlers
\* that are functions of their arguments and context) of the same pipeline
\* on the same input end alike: both resolve with equal PipelineResults or
\* both reject with the same error, however their steps interleave with
\* each other and with those of an execution that draws from the shared
\* counter and the clock.
C26_IsolatedDeterministic ==
    \A r, q \in IsolatedRunIds :
        (/\ r # q
         /\ Settled(r) /\ Settled(q)
         /\ Isolated(r) /\ Isolated(q)
         /\ run[r].pid = run[q].pid
         /\ run[r].iid = run[q].iid) =>
            run[r].returned = run[q].returned

\* Two isolated executions of returningPipeline on the same input have
\* resolved with the same result, custom_2 as its tag and the fixed date in
\* the arguments of their third steps, while a third execution has drawn
\* from the shared counter between their steps
C26_Witness ==
    /\ run[1].status = "resolved" /\ run[3].status = "resolved"
    /\ run[2].status # "idle"
    /\ run[1].pid = 6 /\ run[3].pid = 6
    /\ run[1].iid = run[3].iid
    /\ run[1].oid = 2 /\ run[3].oid = 2
    /\ run[2].oid = 1
    /\ run[1].returned = run[3].returned
    /\ getKey(run[1].returned.result, <<"tag">>) = Str(<<"custom_", "2">>)
    /\ getKey(run[1].returned.operations[3].args, <<"at">>) = DateAt(0)
    /\ tempIdCounter > 0

\* C27: an execution whose handlers all settle settles itself, resolved or
\* rejected, whatever the other execution does, one whose handler never
\* settles included; on the way the handler of each step is called once at
\* most, and an execution takes up a later step only when the awaited call
\* of the step it is at has settled, so that an execution whose handler does
\* not settle starts no later step.
C27_RunSettles ==
    /\ (run[1].status = "awaiting") ~> Settled(1)
    /\ [](\A r \in Started :
             \A i \in 1..Len(Pipelines[run[r].pid].pipe) :
                 Cardinality(Positions(run[r], "invoke", i)) <= 1)
    /\ [][\A r \in RunIds :
             (run[r].status = "awaiting" /\ run'[r] # run[r]) =>
                 /\ Positions(run'[r], "settle", run[r].idx) # {}
                 /\ run'[r].idx \in {run[r].idx, run[r].idx + 1}
       ]_vars

\* The first execution has completed returningPipeline while the second is
\* still at its first step, whose handler has not settled
C27_Witness ==
    /\ run[1].status = "resolved"
    /\ run[1].pid = 6
    /\ run[2].status = "awaiting"
    /\ run[2].idx = 1
    /\ run[2].pending.kind = "handler"
    /\ run[2].operationResults = <<>>
    /\ Positions(run[2], "settle", 1) = {}

\* The completed steps of frame f that were skipped and declare a $as name
SkippedNamed(f) ==
    {k \in Completed(f) :
        f.operationResults[k].skipped /\ Pipelines[f.pid].pipe[k].as.t = "str"}

\* The results object of frame f holds under name what the steps before
\* step k stored there: the output of the last of them whose handler was
\* called, or nothing
HoldsAsBefore(f, k, name) ==
    IF LastNamed(f, k, name) = 0
    THEN ~hasOwn(f.results, name)
    ELSE /\ hasOwn(f.results, name)
         /\ getKey(f.results, name) = f.operationResults[LastNamed(f, k, name)].result

\* C28: a skipped step leaves the results object as it is. The step of an
\* execution that settles a skipped step changes nothing in the results
\* object; and for every skipped step k that declares a $as name, as long
\* as no later step has stored under the name, the results object holds
\* under it the output of the last step before k that stored there (or
\* nothing when there is none), and every later step with a $ref to the name
\* sees that output.
C28_SkippedLeavesResults ==
    /\ [](\A r \in Started :
             \A k \in SkippedNamed(run[r]) :
                 LET f == run[r]
                     name == Pipelines[f.pid].pipe[k].as.s
                     i == LastNamed(f, k, name)
                 IN  /\ LastNamed(f, Len(f.operationResults) + 1, name) = i =>
                            HoldsAsBefore(f, k, name)
                     /\ i # 0 =>
                            \A j \in Completed(f) :
                                (j > k /\ LastNamed(f, j, name) = i) =>
                                    SawOutput(f, j, i, name))
    /\ [][\A r \in RunIds :
             (run[r].status = "awaiting" /\ run[r].pending.kind = "skipped"
                 /\ run'[r] # run[r]) =>
                 /\ run'[r].results = run[r].results
                 /\ Len(run'[r].operationResults) = Len(run[r].operationResults) + 1
       ]_vars

\* guardedPipeline has completed with its second step, named "d" like the
\* first, skipped: the results object holds the output of the first step
\* under "d", and the third step saw its field deleted
C28_Witness ==
    /\ run[1].status = "resolved"
    /\ Dsls[run[1].pid] = guardedPipeline
    /\ SkippedNamed(run[1]) = {2}
    /\ LastNamed(run[1], 2, <<"d">>) = 1
    /\ getKey(run[1].results, <<"d">>) = Obj(<<KV(<<"deleted">>, Bool(TRUE))>>)
    /\ run[1].operationResults[1].result = Obj(<<KV(<<"deleted">>, Bool(TRUE))>>)
    /\ getKey(run[1].operationResults[3].args, <<"seen">>) = Bool(TRUE)

\* The results object execution r has when it goes on from where it is:
\* empty at the call, and after the store of the settled step otherwise
ResultsGoingOn(r) ==
    IF run[r].status = "idle" THEN Obj(<<>>)
    ELSE storeResult(run[r].results, run[r].pending.op)

\* The entries of the $with of op are literals and single references alone:
\* no operator that leaves a part of its payload unresolved
PlainArgs(op) ==
    \A p \in 1..Len(argsOf(op).kids) :
        LET v == argsOf(op).kids[p].v
        IN  \/ v.t \notin {"obj", "arr"}
            \/ /\ v.t = "obj"
               /\ Len(v.kids) = 1
               /\ v.kids[1].k \in {<<"$temp">>, <<"$ref">>, <<"$input">>, <<"$now">>}

\* The step that frame f has taken up has resolved its arguments: the
\* counter ctr and the generator of the options are where the resolution of
\* $with leaves them from where that of the condition did (cond), which for
\* plain arguments is one id further for every $temp of $with
TempsDrawn(f, op, cond, ctr) ==
    /\ ctr = resolveValue(argsOf(op), createCtx(f, 1), cond.st).st.ctr
    /\ f.gen = resolveValue(argsOf(op), createCtx(f, 1), cond.st).st.gen
    /\ PlainArgs(op) =>
           IF Options[f.oid].tempId = "none"
           THEN ctr = cond.st.ctr + TempsIn(argsOf(op)) /\ f.gen = cond.st.gen
           ELSE ctr = cond.st.ctr /\ f.gen = cond.st.gen + TempsIn(argsOf(op))

\* C29: a step that is not skipped fails on its handler lookup exactly when
\* the registry of that moment lacks the namespace or the effect, and it
\* fails after the condition and the arguments were resolved, in this order:
\* every $temp of its $with has advanced the counter, or the generator of
\* the options, no handler was called, and the results object is as the
\* steps before left it; the execution then rejects with the lookup error,
\* its results object still unchanged. A step whose lookup succeeds has
\* evaluated condition, arguments, lookup and handler call in this order.
C29_LookupAfterArgs ==
    [][\A r \in RunIds :
          /\ TakesUpStep(r) =>
                 LET f == run'[r]
                     op == StepOf(f)
                     parts == parseEffect(op.do)
                     cond == resolveValue(op.when, createCtx(f, 1),
                                          [ctr |-> tempIdCounter, gen |-> run[r].gen])
                     err == lookupError(plugins, op.do, parts[1], parts[2])
                 IN  /\ f.pending.kind # "skipped" =>
                            (f.pending.kind = "throw") = (err.kind # "none")
                     /\ f.pending.kind = "throw" =>
                            /\ f.pending.err = err
                            /\ f.pending.h = ""
                            /\ EventsFrom(f.log, f.idx, 1) =
                                   condEvents(op) \o <<"with", "lookup", "throw">>
                            /\ TempsDrawn(f, op, cond, tempIdCounter')
                            /\ f.results = ResultsGoingOn(r)
                     /\ f.pending.kind = "handler" =>
                            SubSeq(EventsFrom(f.log, f.idx, 1), 1,
                                   Len(condEvents(op)) + 3) =
                                condEvents(op) \o <<"with", "lookup", "invoke">>
          /\ (run[r].status = "awaiting" /\ run[r].pending.kind = "throw"
                 /\ run'[r] # run[r]) =>
                 /\ run'[r].status = "rejected"
                 /\ run'[r].returned = Rejection(run[r].pending.err)
                 /\ run'[r].results = run[r].results
                 /\ run'[r].operationResults = run[r].operationResults
                 /\ Positions(run'[r], "invoke", run[r].idx) = {}
                 /\ tempIdCounter' = tempIdCounter
    ]_vars

\* bogusPipeline has rejected at its second step, whose effect the plugin of
\* its namespace lacks: the $temp of the step's $with has taken the counter
\* to 1, the handler of the first step alone was called, and the results
\* object holds the name of the first step alone
C29_Witness ==
    /\ run[1].status = "rejected"
    /\ Dsls[run[1].pid] = bogusPipeline
    /\ run[1].idx = 2
    /\ run[1].oid = 1
    /\ run[1].returned.err = EvaluationError(<<"Unknown effect: ", "entity", DOT, "bogus">>)
    /\ EventsFrom(run[1].log, 2, 1) = <<"with", "lookup", "throw", "settle">>
    /\ Invoked(run[1]) = <<1>>
    /\ tempIdCounter = 1
    /\ keySet(run[1].results) = {<<"x">>}

\* The handler lookup of operation op in the registry ps: what the awaited
\* call must hold of it
LookedUpIn(pending, op, ps) ==
    LET parts == parseEffect(op.do)
        err == lookupError(ps, op.do, parts[1], parts[2])
    IN  IF err.kind # "none"
        THEN pending.kind = "throw" /\ pending.err = err
        ELSE /\ pending.kind = "handler"
             /\ pending.h = effectHandler(mapGet(ps, parts[1]), parts[2])

\* C30: the handler of a step is looked up when the step is dispatched, in
\* the registry as it is then. A call of execute on a pipeline takes up the
\* first step whatever the registry lacks for the later ones; every step
\* taken up and not skipped fails with unknown namespace or unknown effect,
\* or calls the handler, as the registry of that moment has it, whatever it
\* held when the execution was called; a registry call changes no
\* execution, and an execution that goes on after one keeps the
\* OperationResults and the results of the steps it has completed.
C30_LookupAtDispatch ==
    [][/\ plugins' # plugins => run' = run
       /\ \A r \in RunIds :
              /\ (run[r].status = "idle" /\ run'[r].status # "idle"
                     /\ isDSL(Dsls[run'[r].pid])) =>
                     run'[r].status = "awaiting" /\ run'[r].idx = 1
              /\ (TakesUpStep(r) /\ run'[r].pending.kind # "skipped") =>
                     LookedUpIn(run'[r].pending, StepOf(run'[r]), plugins)
              /\ (run[r].status = "awaiting" /\ run'[r] # run[r]) =>
                     /\ run'[r].results = ResultsGoingOn(r) \/ run'[r].status = "rejected"
                     /\ run'[r].status = "rejected" =>
                            /\ run'[r].results = run[r].results
                            /\ run'[r].operationResults = run[r].operationResults
                     /\ run'[r].status # "rejected" =>
                            run'[r].operationResults =
                                Append(run[r].operationResults, run[r].pending.op)
    ]_vars

\* sessionPipeline was called with entityPlugin registered and the registry
\* was cleared while its first step awaited the create handler: the
\* execution has rejected at its second step with an unknown namespace, and
\* holds the output of the first step under "session"
C30_Witness ==
    /\ run[1].status = "rejected"
    /\ Dsls[run[1].pid] = sessionPipeline
    /\ run[1].idx = 2
    /\ run[1].returned.err =
           EvaluationError(<<"Unknown plugin namespace: ", "entity">>)
    /\ Invoked(run[1]) = <<1>>
    /\ Len(run[1].operationResults) = 1
    /\ hasOwn(getKey(run[1].results, <<"session">>), <<"id">>)
    /\ plugins = <<>>
    /\ regCalls = 2

\* The numbers of the ids `temp_n` that the object v holds where the
\* expression expr it was resolved from has a { $temp: true }, in entry order
\* from entry p on; n ranges up to the counter value ctr
RECURSIVE TempNumsFrom(_, _, _, _)
TempNumsFrom(expr, v, p, ctr) ==
    IF expr.t # "obj" \/ v.t # "obj" \/ p > Len(expr.kids) THEN <<>>
    ELSE IF expr.kids[p].v = RefTemp /\ hasOwn(v, expr.kids[p].k)
            /\ getKey(v, expr.kids[p].k).s[1] = "temp_"
    THEN <<{n \in 0..ctr :
              <<"temp_">> \o Decimal(n) = getKey(v, expr.kids[p].k).s}>>
             \o TempNumsFrom(expr, v, p + 1, ctr)
    ELSE TempNumsFrom(expr, v, p + 1, ctr)

\* The same over the resolved arguments of the OperationResults ops of the
\* steps of pipe, from the i-th on
RECURSIVE TempNumsOfSteps(_, _, _, _)
TempNumsOfSteps(pipe, ops, i, ctr) ==
    IF i > Len(ops) THEN <<>>
    ELSE TempNumsFrom(argsOf(pipe[i]), ops[i].args, 1, ctr)
             \o TempNumsOfSteps(pipe, ops, i + 1, ctr)

\* The ids of the shared counter that frame f has drawn, in evaluation
\* order, each as the set of the numbers it may stand for: in the arguments
\* of its completed steps, of the step it awaits or failed at, and in its
\* return value
TempsOf(f, ctr) ==
    TempNumsOfSteps(Pipelines[f.pid].pipe, f.operationResults, 1, ctr)
        \o (IF f.pending.kind = "none" THEN <<>>
            ELSE TempNumsFrom(argsOf(StepOf(f)), f.pending.op.args, 1, ctr))
        \o TempNumsFrom(Pipelines[f.pid].return, f.returned.result, 1, ctr)

\* The numbers drawn by the executions other than r
DrawnByOthers(r, ctr) ==
    UNION {UNION {TempsOf(run[q], ctr)[p] : p \in 1..Len(TempsOf(run[q], ctr))} :
              q \in Started \ {r}}

\* C31: with no call of resetTempIdCounter, every id drawn from the shared
\* counter is temp_n for one n from 1 to the counter value; the ids of one
\* execution are strictly increasing in evaluation order and none of them is
\* an id of another execution; and every number between two ids that one
\* execution drew one after the other is the id of a draw of another
\* execution, so that the two are consecutive exactly when no other
\* execution drew in between.
C31_TempIdsDistinct ==
    \A r \in Started :
        LET ids == TempsOf(run[r], tempIdCounter)
        IN  /\ \A p \in 1..Len(ids) :
                   \E n \in 1..tempIdCounter : ids[p] = {n}
            /\ \A p, q \in 1..Len(ids) : p < q =>
                   \A a \in ids[p], b \in ids[q] : a < b
            /\ \A p \in 1..Len(ids) :
                   ids[p] \cap DrawnByOthers(r, tempIdCounter) = {}
            /\ \A p \in 1..(Len(ids) - 1) :
                   \A a \in ids[p], b \in ids[p + 1] :
                       (a + 1)..(b - 1) \subseteq DrawnByOthers(r, tempIdCounter)

\* Two executions of complexPipeline on the shared counter have completed,
\* the second having drawn between the two draws of the first: temp_1 and
\* temp_3 for the first, temp_2 and temp_4 for the second
C31_Witness ==
    /\ run[1].status = "resolved" /\ run[2].status = "resolved"
    /\ Dsls[run[1].pid] = complexPipeline /\ Dsls[run[2].pid] = complexPipeline
    /\ TempsOf(run[1], tempIdCounter) = <<{1}, {3}>>
    /\ TempsOf(run[2], tempIdCounter) = <<{2}, {4}>>
    /\ getKey(run[1].operationResults[2].args, <<"sessionId">>) =
           Str(<<"temp_", "1">>)
    /\ tempIdCounter = 4

\* The entries of the object expression v that are a { $input: path }
InputEntries(v) ==
    IF v.t # "obj" THEN {}
    ELSE {p \in 1..Len(v.kids) :
             v.kids[p].v.t = "obj" /\ hasKey(v.kids[p].v, <<"$input">>)}

\* What the { $input: path } at entry p of v names in the input of frame f,
\* as it is stored there
StoredInput(f, v, p) ==
    getNestedValue(Inputs[f.iid], getKey(v.kids[p].v, <<"$input">>).s)

\* The expression e is a single { $input } or { $ref }, or absent
FetchOnly(e) ==
    e.t = "undef" \/ (e.t = "obj" /\ (hasKey(e, <<"$input">>) \/ hasKey(e, <<"$ref">>)))

\* C32: what a $input or a $ref fetches is handed on as it is stored and is
\* not resolved again. In the arguments a handler received and in the
\* return value, every { $input: path } entry holds the value at path in the
\* input, and every { $ref: path } entry the value at path in the stored
\* output, equal to it even where it has the shape of a { $temp }, a
\* { $ref } or a { $input }; and a step that is not skipped, whose $when
\* only fetches and whose $with is made of literals and single references,
\* advances the shared counter by the number of { $temp: true } written in
\* its $with, and not at all under a supplied generator.
C32_FetchedIsData ==
    /\ [](\A r \in Started :
             LET f == run[r]
             IN  /\ \A k \in Ran(f) :
                        /\ \A p \in InputEntries(Pipelines[f.pid].pipe[k].with) :
                               getKey(f.operationResults[k].args,
                                      Pipelines[f.pid].pipe[k].with.kids[p].k)
                                   = StoredInput(f, Pipelines[f.pid].pipe[k].with, p)
                        /\ Pipelines[f.pid].pipe[k].with.t = "obj" =>
                               \A p \in RefEntries(Pipelines[f.pid].pipe[k].with) :
                                   LastNamed(f, k, RefPath(Pipelines[f.pid].pipe[k].with, p)[1]) # 0
                                   => getKey(f.operationResults[k].args,
                                             Pipelines[f.pid].pipe[k].with.kids[p].k)
                                        = OutputAt(f, LastNamed(f, k,
                                                       RefPath(Pipelines[f.pid].pipe[k].with, p)[1]),
                                                   RefPath(Pipelines[f.pid].pipe[k].with, p))
                 /\ f.status = "resolved" =>
                        \A p \in InputEntries(Pipelines[f.pid].return) :
                            getKey(f.returned.result, Pipelines[f.pid].return.kids[p].k)
                                = StoredInput(f, Pipelines[f.pid].return, p))
    /\ [][\A r \in RunIds :
             (TakesUpStep(r) /\ run'[r].pending.kind # "skipped"
                 /\ FetchOnly(StepOf(run'[r]).when) /\ PlainArgs(StepOf(run'[r]))) =>
                 tempIdCounter' - tempIdCounter =
                     IF Options[run'[r].oid].tempId = "none"
                     THEN TempsIn(argsOf(StepOf(run'[r])))
                     ELSE 0
       ]_vars

\* dataPipeline has completed on the shared counter: the handlers of its
\* second and third step received the field raw of the input, and the
\* markers in it, as they are stored; the counter has advanced once, for the
\* $temp written in the $with of the third step
C32_Witness ==
    /\ run[1].status = "resolved"
    /\ Dsls[run[1].pid] = dataPipeline
    /\ run[1].oid = 1
    /\ Invoked(run[1]) = <<1, 2, 3>>
    /\ getKey(run[1].operationResults[2].args, <<"data">>) = rawData
    /\ getKey(run[1].operationResults[2].args, <<"one">>) = RefTemp
    /\ getKey(run[1].operationResults[3].args, <<"again">>) = rawData
    /\ getKey(run[1].operationResults[3].args, <<"inner">>) = RefResult(<<"a", DOT, "v">>)
    /\ getKey(run[1].operationResults[3].args, <<"t">>) = Str(<<"temp_", "1">>)
    /\ getKey(run[1].returned.result, <<"out">>) = rawData
    /\ getKey(run[1].returned.result, <<"direct">>) = RefInput(<<"title">>)
    /\ tempIdCounter = 1

\* The entries of the $with of operation op that are literals
LiteralEntries(op) ==
    {p \in 1..Len(argsOf(op).kids) : argsOf(op).kids[p].v.t \notin {"obj", "arr"}}

\* C33: an execution writes to nothing but its own frame and the temp-id
\* sequence. The DSL object and the input handed to execute are, at every
\* point of the execution and after it has resolved or rejected, what they
\* were when they were built; a step of an execution leaves the registry and
\* every object handed to an execution before as they are; and an
\* execution, whatever ran on the same objects before, takes up the
\* operations as they are written: every OperationResult has the $do and
\* the $as of its step, and a handler receives the literals of $with.
C33_ExecutionFrame ==
    /\ [](\A r \in Started :
             /\ objects.dsls[run[r].pid] = Dsls[run[r].pid]
             /\ objects.inputs[run[r].iid] = Inputs[run[r].iid]
             /\ \A k \in Completed(run[r]) :
                    /\ run[r].operationResults[k].effect = Pipelines[run[r].pid].pipe[k].do
                    /\ run[r].operationResults[k].name = Pipelines[run[r].pid].pipe[k].as
                    /\ k \in Ran(run[r]) =>
                           \A p \in LiteralEntries(Pipelines[run[r].pid].pipe[k]) :
                               getKey(run[r].operationResults[k].args,
                                      argsOf(Pipelines[run[r].pid].pipe[k]).kids[p].k)
                                   = argsOf(Pipelines[run[r].pid].pipe[k]).kids[p].v)
    /\ [][run' # run =>
             /\ plugins' = plugins
             /\ regCalls' = regCalls
             /\ \A pid \in DOMAIN objects.dsls : objects'.dsls[pid] = objects.dsls[pid]
             /\ \A iid \in DOMAIN objects.inputs :
                    objects'.inputs[iid] = objects.inputs[iid]
       ]_vars

\* guardedPipeline was executed twice with a registry that has the entity
\* plugin: once on the input with a truthy flag, rejected at the second
\* step, and once on the input with a falsy flag, completed; the callers
\* hold the pipeline and both inputs as they were built
C33_Witness ==
    /\ run[1].status = "rejected"
    /\ run[2].status = "resolved"
    /\ Dsls[run[1].pid] = guardedPipeline
    /\ run[2].pid = run[1].pid
    /\ run[1].iid = 1 /\ run[2].iid = 2
    /\ Len(run[1].operationResults) = 1
    /\ Len(run[2].operationResults) = 3
    /\ objects.dsls = (run[1].pid :> guardedPipeline)
    /\ DOMAIN objects.inputs = {1, 2}
    /\ mapHas(plugins, <<"entity">>)

====
